---- MODULE Spec2Model ----
(***************************************************************************)
(* Model of saorsa-node: the payment verifier with its verified-address    *)
(* LRU cache (src/payment) and the hybrid client over the primary DHT and  *)
(* the legacy network (src/client).                                        *)
(***************************************************************************)
EXTENDS Integers, Sequences, FiniteSets, TLC

(***************************************************************************)
(* Bounds of the model.                                                    *)
(***************************************************************************)
NumCids == 2
NumContents == 2
NumOwners == 1
NumClients == 2
MaxHybridCalls == 2
MaxCounter == 1
MaxCapacity == 2
NumVerifiers == 2
MaxVerifyCalls == 2

Cids == 1..NumCids
VProcs == 1..NumVerifiers
HProcs == 1..NumClients

VARIABLES
    capacity,     \* PaymentVerifierConfig.cache_capacity
    evmEnabled,   \* PaymentVerifierConfig.evm.enabled
    lru,          \* VerifiedCache.inner: most recently used first
    cacheStats,   \* VerifiedCache.stats
    vpc,          \* position of each verify_payment future
    vcid,         \* its xorname argument
    vproof,       \* its payment_proof argument
    vresult,      \* the value it returned
    vtrace,       \* the observable steps it has taken, in order
    vcalls,       \* number of verify_payment calls started
    verified,     \* xornames for which verify_evm_payment returned Ok(())
    lastStep      \* whether the latest verifier step returned PaymentVerified, and to whom

payVars == <<capacity, evmEnabled, lru, cacheStats, vpc, vcid, vproof, vresult,
             vtrace, vcalls, verified, lastStep>>

VARIABLES
    p2pNode,          \* QuantumClient.p2p_node is Some
    autoMigrate,      \* HybridConfig.auto_migrate
    legacyConnected,  \* LegacyClient.client is Some
    dht,              \* what the primary DHT holds at each address
    legacyNet,        \* what the legacy network holds at each chunk address
    stats,            \* HybridClient.stats
    hpc,              \* position of each hybrid client future
    hop,              \* the operation it runs
    hkey,             \* its address or owner argument
    hchunk,           \* the record it holds
    htrace,           \* the observable steps it has taken, in order
    hreturned,        \* the call that returned last: its arguments, value and steps
    hcalls,           \* number of hybrid operations started
    gets              \* number of typed get calls made, those made by lookup included

hybridVars == <<p2pNode, autoMigrate, legacyConnected, dht, legacyNet, stats, hpc, hop,
                hkey, hchunk, htrace, hreturned, hcalls, gets>>

VARIABLES
    cpc,              \* where the caller of the VerifiedCache stands: between the two locks or not
    history           \* the calls that have taken the cache's inner lock, in the order they took it

cacheVars == <<cpc, history>>

VARIABLES
    recordStore,      \* the ant-node data directory has a record_store directory
    dirEntries,       \* what the walk of record_store meets, in the order it meets it
    masterKey,        \* AntDataMigrator.master_key is Some
    mgpc,             \* where migrate stands
    record_paths,     \* migrate's record_paths: positions in dirEntries
    midx,             \* migrate's loop index
    mstats,           \* migrate's stats
    mresult,          \* what migrate returned
    processed,        \* the paths handed to process_record, in order
    sent              \* the events passed to NodeEventsSender::send, in order

migVars == <<recordStore, dirEntries, masterKey, mgpc, record_paths, midx, mstats,
             mresult, processed, sent>>

VARIABLES
    hasMigrator,      \* RunningNode.migrator is Some
    hasMonitor,       \* RunningNode.upgrade_monitor is Some
    npc,              \* where run stands
    shutdownVal,      \* the value in the shutdown watch channel
    runUnseen,        \* RunningNode.shutdown_rx has not seen the latest value
    monUnseen,        \* the monitor task's clone of shutdown_rx has not seen it
    mpc,              \* where the spawned monitor task stands
    msleep,           \* what is left of the monitor task's sleep
    polls             \* number of check_for_updates calls made

nodeVars == <<hasMigrator, hasMonitor, npc, shutdownVal, runUnseen, monUnseen, mpc,
              msleep, polls>>

VARIABLES
    xpath,            \* the directories above a record file handed to process_record alone
    xout              \* what that process_record call made of the file

extractVars == <<xpath, xout>>

VARIABLES
    ubin,             \* the binary file: its content, 0 when it cannot be read
    usig,             \* the signature bytes offered, also the content of the .sig file
    usigReadable,     \* the .sig file can be read
    upk,              \* the public key handed to the *_with_key functions
    ucurrent,         \* the binary installed at current_binary
    ureads,           \* the files the last call read
    uret              \* the last call and what it returned

upgradeVars == <<ubin, usig, usigReadable, upk, ucurrent, ureads, uret>>

VARIABLES
    rnode,            \* the node id the rollout calculators are made for
    rdelays           \* max_delay_hours -> seconds calculate_delay returned, -1 before

rolloutVars == <<rnode, rdelays>>

restVars == <<cacheVars, migVars, nodeVars, extractVars, upgradeVars, rolloutVars>>

vars == <<payVars, hybridVars, restVars>>

(***************************************************************************)
(* Result<T> values.                                                       *)
(***************************************************************************)
Ok(v) == [ok |-> TRUE, kind |-> "", val |-> v]
Err(kind, msg) == [ok |-> FALSE, kind |-> kind, val |-> msg]
NoResult == [ok |-> FALSE, kind |-> "", val |-> ""]

Range(s) == {s[i] : i \in 1..Len(s)}
Remove(s, k) == SelectSeq(s, LAMBDA x : x # k)
Count(s, k) == Cardinality({i \in 1..Len(s) : s[i] = k})

(***************************************************************************)
(* payment/cache.rs: VerifiedCache over lru::LruCache.                     *)
(***************************************************************************)
\* a floor of two entries instead of one
with_capacity_floor_two(c) == IF c > 2 THEN c ELSE 2

\* with_capacity: capacity.max(1)
with_capacity(c) == IF c > 1 THEN c ELSE 1

\* a lookup that leaves the order of use alone
LruPeek(l, k) == l

\* LruCache::get: a hit moves the key to the most-recent position
LruGet(l, k) == IF k \in Range(l) THEN <<k>> \o Remove(l, k) ELSE l

\* a put that appends without looking for the key
LruPutNoDedupe(l, k, cap) ==
    IF Len(l) >= cap THEN <<k>> \o SubSeq(l, 1, cap - 1) ELSE <<k>> \o l

\* LruCache::put: update in place and promote, or insert evicting the least recent
LruPut(l, k, cap) ==
    IF k \in Range(l) THEN <<k>> \o Remove(l, k)
    ELSE IF Len(l) >= cap THEN <<k>> \o SubSeq(l, 1, cap - 1)
    ELSE <<k>> \o l

\* VerifiedCache::contains: the stats update
contains_stats(st, found) ==
    IF found THEN [st EXCEPT !.hits = @ + 1] ELSE [st EXCEPT !.misses = @ + 1]

\* VerifiedCache::insert: the stats update
insert_stats(st) == [st EXCEPT !.additions = @ + 1]

(***************************************************************************)
(* Payment proofs.  A proof is a byte string; the wire form of a           *)
(* ProofOfPayment is a length header followed by one byte per              *)
(* (peer_id, quote) pair.                                                  *)
(***************************************************************************)
MaxQuotes == 2
QuoteOk == 1        \* peer id parses and the quote is signed by it
QuoteBadSig == 2    \* check_is_signed_by_claimed_peer is false
QuoteBadPeer == 3   \* to_peer_id fails

None == [some |-> FALSE, bytes |-> <<>>]
Some(b) == [some |-> TRUE, bytes |-> b]

ProofBytes == {<< >>, <<3>>, <<0>>, <<1, 1>>, <<1, 2>>, <<1, 3>>, <<2, 1, 2>>}
ProofOptions == {None} \cup {Some(b) : b \in ProofBytes}

\* rmp_serde::to_vec(&ProofOfPayment)
to_vec(quotes) == <<Len(quotes)>> \o quotes

\* rmp_serde::from_slice::<ProofOfPayment>
from_slice(bytes) ==
    IF /\ Len(bytes) >= 1
       /\ bytes[1] \in 0..MaxQuotes
       /\ Len(bytes) = bytes[1] + 1
       /\ \A i \in 2..Len(bytes) : bytes[i] \in {QuoteOk, QuoteBadSig, QuoteBadPeer}
    THEN [ok |-> TRUE, peer_quotes |-> Tail(bytes)]
    ELSE [ok |-> FALSE, peer_quotes |-> << >>]

\* index of the first quote the signature loop rejects, 0 when none
FirstBadQuote(quotes) ==
    IF \E i \in 1..Len(quotes) : quotes[i] # QuoteOk
    THEN CHOOSE i \in 1..Len(quotes) :
            /\ quotes[i] # QuoteOk
            /\ \A j \in 1..(i - 1) : quotes[j] = QuoteOk
    ELSE 0

\* a verifier that goes to the chain without checking the quotes
verify_evm_payment_no_checks(enabled, quotes) ==
    IF ~enabled
    THEN [next |-> "ok", msg |-> "", trace |-> <<"evm_disabled">>]
    ELSE [next |-> "await", msg |-> "", trace |-> <<"rpc">>]

\* verify_evm_payment up to its only await: the enabled shortcut, the
\* signature loop, the digest check
verify_evm_payment(enabled, quotes) ==
    IF ~enabled
    THEN [next |-> "ok", msg |-> "", trace |-> <<"evm_disabled">>]
    ELSE IF FirstBadQuote(quotes) # 0
    THEN IF quotes[FirstBadQuote(quotes)] = QuoteBadPeer
         THEN [next |-> "err", msg |-> "Invalid peer ID in payment proof",
               trace |-> <<"signatures">>]
         ELSE [next |-> "err", msg |-> "Quote signature invalid for peer",
               trace |-> <<"signatures">>]
    ELSE IF quotes = << >>
    THEN [next |-> "err", msg |-> "Payment has no quotes",
          trace |-> <<"signatures", "digest">>]
    ELSE [next |-> "await", msg |-> "", trace |-> <<"signatures", "digest", "rpc">>]

\* a verifier that takes a missing proof for a paid one
verify_payment_proof_optional(proof, enabled) ==
    IF ~proof.some \/ proof.bytes = << >>
    THEN [next |-> "ok", msg |-> "", trace |-> << >>]
    ELSE IF ~from_slice(proof.bytes).ok
    THEN [next |-> "err", msg |-> "Failed to deserialize payment proof",
          trace |-> <<"deserialize">>]
    ELSE LET r == verify_evm_payment(enabled, from_slice(proof.bytes).peer_quotes)
         IN  [r EXCEPT !.trace = <<"deserialize">> \o @]

\* verify_payment, PaymentRequired arm, up to the await inside
\* verify_evm_payment: what the proof argument leads to
verify_payment_proof(proof, enabled) ==
    IF ~proof.some
    THEN [next |-> "err", msg |-> "Payment required for new data", trace |-> << >>]
    ELSE IF proof.bytes = << >>
    THEN [next |-> "err", msg |-> "Empty payment proof", trace |-> << >>]
    ELSE IF ~from_slice(proof.bytes).ok
    THEN [next |-> "err", msg |-> "Failed to deserialize payment proof",
          trace |-> <<"deserialize">>]
    ELSE LET r == verify_evm_payment(enabled, from_slice(proof.bytes).peer_quotes)
         IN  [r EXCEPT !.trace = <<"deserialize">> \o @]

\* verify_data_payment: the match on the RPC's result
rpc_result(outcome) ==
    IF outcome = "Ok" THEN [next |-> "ok", msg |-> "", trace |-> << >>]
    ELSE IF outcome = "PaymentInvalid"
    THEN [next |-> "err", msg |-> "Payment verification failed on-chain", trace |-> << >>]
    ELSE [next |-> "err", msg |-> "EVM verification error", trace |-> << >>]

RpcOutcomes == {"Ok", "PaymentInvalid", "Other"}

(***************************************************************************)
(* payment/verifier.rs: PaymentVerifier::verify_payment, one future per    *)
(* process.                                                                *)
(***************************************************************************)
PayInit ==
    /\ capacity \in 0..MaxCapacity
    /\ evmEnabled \in BOOLEAN
    /\ lru = << >>
    /\ cacheStats = [hits |-> 0, misses |-> 0, additions |-> 0]
    /\ vpc = [p \in VProcs |-> "idle"]
    /\ vcid = [p \in VProcs |-> 1]
    /\ vproof = [p \in VProcs |-> None]
    /\ vresult = [p \in VProcs |-> NoResult]
    /\ vtrace = [p \in VProcs |-> << >>]
    /\ vcalls = 0
    /\ verified = {}
    /\ lastStep = [kind |-> "other", proc |-> 0]

\* a verifier on which no call is made
PayIdle == PayInit /\ capacity = MaxCapacity /\ evmEnabled

\* what no call on the verifier changes: its configuration, and the hybrid client
PayConfig == <<capacity, evmEnabled, hybridVars, restVars>>

\* verify_payment is called: check_payment_required enters
\* VerifiedCache::contains, whose first statement looks the xorname up under
\* the lock of the LRU and lets that lock go
check_payment_required(p, cid, proof) ==
    /\ vpc[p] \in {"idle", "done", "cancelled"}
    /\ vcalls < MaxVerifyCalls
    /\ vcalls' = vcalls + 1
    /\ vcid' = [vcid EXCEPT ![p] = cid]
    /\ vproof' = [vproof EXCEPT ![p] = proof]
    /\ lru' = LruGet(lru, cid)
    /\ vpc' = [vpc EXCEPT ![p] = IF cid \in Range(lru) THEN "found" ELSE "not_found"]
    /\ vresult' = [vresult EXCEPT ![p] = NoResult]
    /\ vtrace' = [vtrace EXCEPT ![p] = << >>]
    /\ lastStep' = [kind |-> "other", proc |-> 0]
    /\ UNCHANGED <<PayConfig, cacheStats, verified>>

\* the rest of VerifiedCache::contains, under the lock of the counters, and
\* the return of check_payment_required: a hit ends verify_payment
contains_count(p) ==
    /\ vpc[p] \in {"found", "not_found"}
    /\ cacheStats' = contains_stats(cacheStats, vpc[p] = "found")
    /\ vtrace' = [vtrace EXCEPT ![p] =
                    IF vpc[p] = "found" THEN <<"cache_hit">> ELSE <<"cache_miss">>]
    /\ IF vpc[p] = "found"
       THEN /\ vpc' = [vpc EXCEPT ![p] = "done"]
            /\ vresult' = [vresult EXCEPT ![p] = Ok("CachedAsVerified")]
       ELSE /\ vpc' = [vpc EXCEPT ![p] = "required"]
            /\ UNCHANGED vresult
    /\ lastStep' = [kind |-> "other", proc |-> 0]
    /\ UNCHANGED <<PayConfig, lru, vcid, vproof, vcalls, verified>>

\* a future that puts the xorname in the cache before it awaits the chain
AwaitInserting(p) ==
    /\ vpc' = [vpc EXCEPT ![p] = "rpc"]
    /\ lru' = LruPut(lru, vcid[p], with_capacity(capacity))
    /\ cacheStats' = insert_stats(cacheStats)
    /\ UNCHANGED <<vresult, verified>>
    /\ lastStep' = [kind |-> "other", proc |-> 0]

\* verify_evm_payment reached the RPC: the future is suspended
Await(p) ==
    /\ vpc' = [vpc EXCEPT ![p] = "rpc"]
    /\ UNCHANGED <<lru, cacheStats, vresult, verified>>
    /\ lastStep' = [kind |-> "other", proc |-> 0]

\* verify_payment after verify_evm_payment returned Ok(()): cache.insert
\* puts the xorname under the lock of the LRU and lets that lock go
Accept(p) ==
    /\ lru' = LruPut(lru, vcid[p], with_capacity(capacity))
    /\ verified' = verified \cup {vcid[p]}
    /\ vpc' = [vpc EXCEPT ![p] = "inserted"]
    /\ lastStep' = [kind |-> "other", proc |-> 0]
    /\ UNCHANGED <<cacheStats, vresult>>

\* the rest of VerifiedCache::insert, under the lock of the counters, and
\* the return of Ok(PaymentStatus::PaymentVerified)
insert_count(p) ==
    /\ vpc[p] = "inserted"
    /\ cacheStats' = insert_stats(cacheStats)
    /\ vpc' = [vpc EXCEPT ![p] = "done"]
    /\ vresult' = [vresult EXCEPT ![p] = Ok("PaymentVerified")]
    /\ lastStep' = [kind |-> "verified", proc |-> p]
    /\ UNCHANGED <<PayConfig, lru, vcid, vproof, vtrace, vcalls, verified>>

\* verify_payment returning Err(Error::Payment(msg))
Reject(p, msg) ==
    /\ vpc' = [vpc EXCEPT ![p] = "done"]
    /\ vresult' = [vresult EXCEPT ![p] = Err("Payment", msg)]
    /\ UNCHANGED <<lru, cacheStats, verified>>
    /\ lastStep' = [kind |-> "other", proc |-> 0]

\* verify_payment after the cache miss, run to its error return, to the
\* await or into cache.insert
verify_payment(p) ==
    /\ vpc[p] = "required"
    /\ UNCHANGED <<PayConfig, vcid, vproof, vcalls>>
    /\ LET r == verify_payment_proof(vproof[p], evmEnabled)
       IN  IF r.next = "ok"
           THEN /\ Accept(p)
                /\ vtrace' = [vtrace EXCEPT ![p] = @ \o r.trace \o <<"insert">>]
           ELSE IF r.next = "err"
           THEN /\ Reject(p, r.msg)
                /\ vtrace' = [vtrace EXCEPT ![p] = @ \o r.trace]
           ELSE /\ Await(p)
                /\ vtrace' = [vtrace EXCEPT ![p] = @ \o r.trace]

\* verify_data_payment returns: the match in verify_evm_payment, then the
\* error return of verify_payment or its entry into cache.insert
verify_data_payment(p, outcome) ==
    /\ vpc[p] = "rpc"
    /\ UNCHANGED <<PayConfig, vcid, vproof, vcalls>>
    /\ IF rpc_result(outcome).next = "ok"
       THEN /\ Accept(p)
            /\ vtrace' = [vtrace EXCEPT ![p] = @ \o <<"insert">>]
       ELSE /\ Reject(p, rpc_result(outcome).msg)
            /\ UNCHANGED vtrace

\* a drop that still records the xorname
DropInserting(p) ==
    /\ vpc[p] = "rpc"
    /\ vpc' = [vpc EXCEPT ![p] = "cancelled"]
    /\ vresult' = [vresult EXCEPT ![p] = NoResult]
    /\ lru' = LruPut(lru, vcid[p], with_capacity(capacity))
    /\ cacheStats' = insert_stats(cacheStats)
    /\ lastStep' = [kind |-> "other", proc |-> 0]
    /\ UNCHANGED <<PayConfig, vcid, vproof, vtrace, vcalls, verified>>

\* the caller drops the future while it is suspended on the RPC
Drop(p) ==
    /\ vpc[p] = "rpc"
    /\ vpc' = [vpc EXCEPT ![p] = "cancelled"]
    /\ vresult' = [vresult EXCEPT ![p] = NoResult]
    /\ lastStep' = [kind |-> "other", proc |-> 0]
    /\ UNCHANGED <<PayConfig, lru, cacheStats, vcid, vproof, vtrace,
                   vcalls, verified>>

\* a new call takes the lowest-numbered future that was never used, or any finished one
FreeSlot(p) == vpc[p] = "idle" => \A q \in 1..(p - 1) : vpc[q] # "idle"

PayNext ==
    \/ \E p \in VProcs, cid \in Cids, proof \in ProofOptions :
          FreeSlot(p) /\ check_payment_required(p, cid, proof)
    \/ \E p \in VProcs : contains_count(p)
    \/ \E p \in VProcs : verify_payment(p)
    \/ \E p \in VProcs : insert_count(p)
    \/ \E p \in VProcs, outcome \in RpcOutcomes : verify_data_payment(p, outcome)
    \/ \E p \in VProcs : Drop(p)


(***************************************************************************)
(* client/quantum.rs, client/legacy.rs: the two networks behind the        *)
(* hybrid client.  A content is a byte string; an address is a number, 0   *)
(* standing for an address that is the hash of no content of the model.    *)
(***************************************************************************)
Contents == {<<c>> : c \in 1..NumContents}
Addrs == 0..NumContents
Kinds == {"chunk", "scratchpad", "pointer", "graph"}

\* Sha256::new().update(content).finalize(): distinct contents, distinct addresses
Sha256(content) == (content[1] % NumContents) + 1

\* the address the typed reads look up: the argument itself for chunks and
\* graph entries, the hash of a prefix and the owner for scratchpads and pointers
derive_address(kind, key) ==
    IF kind = "scratchpad" THEN 100 + key
    ELSE IF kind = "pointer" THEN 200 + key
    ELSE key

\* the arguments of the typed reads: an address, or an owner key
Owners == 1..NumOwners
Keys(kind) == IF kind \in {"scratchpad", "pointer"} THEN Owners ELSE Addrs

\* the arguments put_graph_entry is called with: parent addresses and content,
\* both written in 32-byte blocks; the content may begin with the bytes of an
\* address, and the last content of the model is longer than every ceiling
GraphOwners == {1}
GraphParents == {<< >>, <<1>>}
GraphContents == {<<1>>, <<1, 1>>, <<NumContents>>}

\* Sha256 of a sequence of blocks fed to the hasher one after the other:
\* distinct byte strings, distinct hashes
RECURSIVE HashBlocks(_)
HashBlocks(blocks) ==
    IF blocks = << >> THEN 0
    ELSE blocks[1] + (NumContents + NumOwners + 1) * HashBlocks(Tail(blocks))

\* hasher.update(b"graph:"); hasher.update(owner); for parent in parents
\* { hasher.update(parent) }; hasher.update(&content)
graph_address(owner, parents, content) == 300 + HashBlocks(<<owner>> \o parents \o content)

GraphAddrs ==
    {graph_address(o, ps, c) : o \in GraphOwners, ps \in GraphParents, c \in GraphContents}

DhtKeys ==
    Addrs \cup {derive_address(k, a) : k \in {"scratchpad", "pointer"}, a \in Owners}
          \cup GraphAddrs

\* the size ceilings, in bytes: 4 MiB, 4 MiB and 100 KiB
MAX_CHUNK_SIZE == 4194304
MAX_SCRATCHPAD_SIZE == 4194304
MAX_GRAPH_ENTRY_SIZE == 102400

\* the number of bytes a block stands for: an address-sized block, but for
\* the last content, one byte above the chunk ceiling
BlockLen(c) == IF c = NumContents THEN MAX_CHUNK_SIZE + 1 ELSE 32

\* Bytes::len
RECURSIVE ByteLen(_)
ByteLen(content) ==
    IF content = << >> THEN 0 ELSE BlockLen(content[1]) + ByteLen(Tail(content))

\* first byte of the rmp_serde encoding of each entry type: the array header
\* that carries the number of serialized fields
RecordTag(kind) == IF kind = "scratchpad" THEN 149 ELSE 148

\* rmp_serde::to_vec(&ScratchpadEntry): owner, content_type, payload, counter
\* and the 64-byte placeholder signature; source is skipped
scratchpad_to_vec(owner, content_type, payload, counter) ==
    <<RecordTag("scratchpad"), owner, content_type, Len(payload)>> \o payload
        \o <<counter, 64>>

\* rmp_serde::to_vec(&PointerRecord): owner, counter, target, signature
pointer_to_vec(owner, counter, target) == <<RecordTag("pointer"), owner, counter, target, 64>>

\* rmp_serde::to_vec(&GraphEntry): owner, parents, content and the empty descendants
graph_to_vec(owner, parents, content) ==
    <<RecordTag("graph"), owner, Len(parents)>> \o parents \o <<Len(content)>> \o content
        \o <<0>>

\* rmp_serde::from_slice::<ScratchpadEntry | PointerRecord | GraphEntry>
from_slice_entry(kind, bytes) ==
    /\ Len(bytes) >= 5
    /\ bytes[1] = RecordTag(kind)
    /\ IF kind = "scratchpad"
       THEN Len(bytes) = 6 + bytes[4] /\ bytes[Len(bytes)] = 64
       ELSE IF kind = "pointer"
       THEN Len(bytes) = 5 /\ bytes[5] = 64
       ELSE /\ Len(bytes) >= 4 + bytes[3]
            /\ Len(bytes) = 5 + bytes[3] + bytes[4 + bytes[3]]
            /\ bytes[Len(bytes)] = 0

\* the fields of a deserialized entry
entry_counter(kind, bytes) == IF kind = "scratchpad" THEN bytes[Len(bytes) - 1] ELSE bytes[3]
entry_payload(bytes) == SubSeq(bytes, 5, 4 + bytes[4])
entry_parents(bytes) == SubSeq(bytes, 4, 3 + bytes[3])
entry_content(bytes) == SubSeq(bytes, 5 + bytes[3], Len(bytes) - 1)

NoChunk == [address |-> 0, content |-> << >>, source |-> "None"]
DataChunk(address, content, source) ==
    [address |-> address, content |-> content, source |-> source]

HOk(val, chunk) == [ok |-> TRUE, kind |-> "", val |-> val, chunk |-> chunk]
HErr(kind, msg) == [ok |-> FALSE, kind |-> kind, val |-> msg, chunk |-> NoChunk]
HNoResult == [ok |-> FALSE, kind |-> "", val |-> "", chunk |-> NoChunk]

\* the value a finished call handed to its caller
Returned(op, key, r, trace) == [op |-> op, key |-> key, result |-> r, trace |-> trace]

DhtOutcomes == {"Ok", "Err"}

\* QuantumClient::get_chunk / get_scratchpad / get_pointer / get_graph_entry
quantum_get(kind, key, node, store, outcome) ==
    IF ~node THEN HErr("Network", "P2P node not configured")
    ELSE IF outcome = "Err" THEN HErr("Network", "DHT lookup failed")
    ELSE IF ~store[derive_address(kind, key)].some THEN HOk("None", NoChunk)
    ELSE IF kind # "chunk" /\ ~from_slice_entry(kind, store[derive_address(kind, key)].bytes)
    THEN HErr("Serialization", "Failed to deserialize")
    ELSE HOk("Some", DataChunk(key, store[derive_address(kind, key)].bytes, "Saorsa"))

\* a put_chunk that takes the first block of the content for its address
quantum_put_chunk_unhashed(content, node, outcome) ==
    IF ~node THEN HErr("Network", "P2P node not configured")
    ELSE IF outcome = "Err" THEN HErr("Network", "DHT store failed")
    ELSE HOk("Address", DataChunk(content[1], content, "Saorsa"))

\* QuantumClient::put_chunk: the address, or the error
quantum_put_chunk(content, node, outcome) ==
    IF ~node THEN HErr("Network", "P2P node not configured")
    ELSE IF outcome = "Err" THEN HErr("Network", "DHT store failed")
    ELSE HOk("Address", DataChunk(Sha256(content), content, "Saorsa"))

\* QuantumClient::put_scratchpad: the entry stored, at its address, or the error
quantum_put_scratchpad(owner, content_type, payload, counter, node, outcome) ==
    IF ~node THEN HErr("Network", "P2P node not configured")
    ELSE IF outcome = "Err" THEN HErr("Network", "DHT store failed for scratchpad")
    ELSE HOk("Entry", DataChunk(derive_address("scratchpad", owner),
                                scratchpad_to_vec(owner, content_type, payload, counter),
                                "Saorsa"))

\* QuantumClient::put_pointer
quantum_put_pointer(owner, target, counter, node, outcome) ==
    IF ~node THEN HErr("Network", "P2P node not configured")
    ELSE IF outcome = "Err" THEN HErr("Network", "DHT store failed for pointer")
    ELSE HOk("Entry", DataChunk(derive_address("pointer", owner),
                                pointer_to_vec(owner, counter, target), "Saorsa"))

\* QuantumClient::put_graph_entry
quantum_put_graph_entry(owner, parents, content, node, outcome) ==
    IF ~node THEN HErr("Network", "P2P node not configured")
    ELSE IF outcome = "Err" THEN HErr("Network", "DHT store failed for graph entry")
    ELSE HOk("Entry", DataChunk(graph_address(owner, parents, content),
                                graph_to_vec(owner, parents, content), "Saorsa"))

\* QuantumClient::exists
quantum_exists(address, node, store, outcome) ==
    IF ~node THEN HErr("Network", "P2P node not configured")
    ELSE IF outcome = "Err" THEN HErr("Network", "DHT lookup failed")
    ELSE IF store[address].some THEN HOk("true", NoChunk)
    ELSE HOk("false", NoChunk)

\* what client.chunk_get under tokio::time::timeout may produce
LegacyOutcomes(address) ==
    IF ~legacyConnected THEN {"NotConnected"}
    ELSE (IF legacyNet[address].some THEN {"Found"} ELSE {"RecordNotFound"})
            \cup {"QueryError", "Timeout"}

\* wrap_autonomi_chunk
wrap_autonomi_chunk(address, content) == DataChunk(address, content, "Autonomi")

\* a legacy read that reports a failed query as an absent chunk
legacy_get_swallowing(kind, address, net, outcome) ==
    IF kind = "chunk" /\ outcome = "Found"
    THEN HOk("Some", wrap_autonomi_chunk(address, net[address].bytes))
    ELSE HOk("None", NoChunk)

\* LegacyClient::get_chunk, and get_scratchpad / get_pointer / get_graph_entry
\* which return Ok(None) whatever the connection
legacy_get(kind, address, net, outcome) ==
    IF kind # "chunk" THEN HOk("None", NoChunk)
    ELSE IF outcome = "NotConnected" THEN HOk("None", NoChunk)
    ELSE IF outcome = "Found"
    THEN HOk("Some", wrap_autonomi_chunk(address, net[address].bytes))
    ELSE IF outcome = "RecordNotFound" THEN HOk("None", NoChunk)
    ELSE IF outcome = "QueryError" THEN HErr("Network", "Autonomi query failed")
    ELSE HErr("Network", "Autonomi query timed out")

\* a legacy read of a typed record that finds one when connected
legacy_get_typed_found(kind, owner, connected) ==
    IF ~connected THEN HOk("None", NoChunk) ELSE HOk("Some", NoChunk)

\* LegacyClient::get_scratchpad, get_pointer and get_graph_entry: Ok(None)
\* without a client, and Ok(None) with one, as the 32-byte key is no BLS key
legacy_get_typed(kind, owner, connected) ==
    IF ~connected THEN HOk("None", NoChunk) ELSE HOk("None", NoChunk)

\* LegacyClient::exists
legacy_exists(address, outcome) ==
    IF outcome = "NotConnected" THEN HOk("false", NoChunk)
    ELSE IF outcome = "Found" THEN HOk("true", NoChunk)
    ELSE IF outcome = "RecordNotFound" THEN HOk("false", NoChunk)
    ELSE IF outcome = "QueryError" THEN HErr("Network", "Autonomi query failed")
    ELSE HErr("Network", "Autonomi query timed out")

(***************************************************************************)
(* client/hybrid.rs: HybridClient, one future per process.                 *)
(***************************************************************************)
\* HybridStats::default()
ZeroStats == [saorsa_hits |-> 0, autonomi_hits |-> 0, cache_hits |-> 0, misses |-> 0,
              saorsa_writes |-> 0, migrations |-> 0]

\* a legacy hit that is counted as a migration at once
legacy_hit_stats_eager(st) ==
    [st EXCEPT !.autonomi_hits = @ + 1, !.migrations = @ + 1]

\* self.stats.write().autonomi_hits += 1
legacy_hit_stats(st) == [st EXCEPT !.autonomi_hits = @ + 1]

\* a miss that is not counted
miss_stats_silent(st) == st

\* self.stats.write().misses += 1
miss_stats(st) == [st EXCEPT !.misses = @ + 1]

\* the legacy network: address 1 holds a chunk whose SHA-256 is another
\* address, every other address but 0 holds the content that hashes to it
LegacyStore ==
    [a \in Addrs \cup GraphAddrs |->
        IF a = 0 \/ a \in GraphAddrs THEN None
        ELSE IF a = 1 THEN Some(<<1>>)
        ELSE Some(<<a - 1>>)]

HybridInit ==
    /\ p2pNode \in BOOLEAN
    /\ autoMigrate \in BOOLEAN
    /\ legacyConnected \in BOOLEAN
    /\ dht = [a \in DhtKeys |-> None]
    /\ legacyNet = LegacyStore
    /\ stats = ZeroStats
    /\ hpc = [p \in HProcs |-> "idle"]
    /\ hop = [p \in HProcs |-> "none"]
    /\ hkey = [p \in HProcs |-> 0]
    /\ hchunk = [p \in HProcs |-> NoChunk]
    /\ htrace = [p \in HProcs |-> << >>]
    /\ hreturned = Returned("none", 0, HNoResult, << >>)
    /\ hcalls = 0
    /\ gets = 0

\* a hybrid client on which no operation is made
HybridIdle == HybridInit /\ p2pNode /\ autoMigrate /\ legacyConnected

\* a call is made: it runs on the first free future
HCall(p) ==
    /\ hpc[p] = "idle"
    /\ \A q \in 1..(p - 1) : hpc[q] # "idle"
    /\ hcalls < MaxHybridCalls
    /\ hcalls' = hcalls + 1

\* the call returns at its first await
HReturnNow(op, key, r, events) ==
    /\ hreturned' = Returned(op, key, r, events)
    /\ UNCHANGED <<hpc, hop, hkey, hchunk, htrace>>

\* the call goes on to a second await
HAwait(p, pc, op, key, events) ==
    /\ hpc' = [hpc EXCEPT ![p] = pc]
    /\ hop' = [hop EXCEPT ![p] = op]
    /\ hkey' = [hkey EXCEPT ![p] = key]
    /\ htrace' = [htrace EXCEPT ![p] = events]
    /\ UNCHANGED <<hchunk, hreturned>>

\* the future completes: its frame is dropped, its value goes to the caller
HReturn(p, r, events) ==
    /\ hpc' = [hpc EXCEPT ![p] = "idle"]
    /\ hop' = [hop EXCEPT ![p] = "none"]
    /\ hkey' = [hkey EXCEPT ![p] = 0]
    /\ hchunk' = [hchunk EXCEPT ![p] = NoChunk]
    /\ htrace' = [htrace EXCEPT ![p] = << >>]
    /\ hreturned' = Returned(hop[p], hkey[p], r, htrace[p] \o events)

\* the future goes on to its next await, holding `chunk`
HMove(p, pc, chunk, events) ==
    /\ hpc' = [hpc EXCEPT ![p] = pc]
    /\ hchunk' = [hchunk EXCEPT ![p] = chunk]
    /\ htrace' = [htrace EXCEPT ![p] = @ \o events]
    /\ UNCHANGED <<hop, hkey, hreturned>>

\* the future holds the record its put has stored, and goes on to count it
HStore(p, pc, op, key, chunk, events) ==
    /\ hpc' = [hpc EXCEPT ![p] = pc]
    /\ hop' = [hop EXCEPT ![p] = op]
    /\ hkey' = [hkey EXCEPT ![p] = key]
    /\ hchunk' = [hchunk EXCEPT ![p] = chunk]
    /\ htrace' = [htrace EXCEPT ![p] = events]
    /\ UNCHANGED hreturned

\* what no method on &self changes: the configuration, the legacy network,
\* and the payment verifier
HEnv == <<p2pNode, autoMigrate, legacyConnected, legacyNet, payVars, restVars>>
HConfig == <<HEnv, hcalls>>

\* the typed get a future runs: lookup runs get_chunk first
HKind(p) == IF hop[p] = "lookup" THEN "chunk" ELSE hop[p]

\* get_chunk returns Ok: to its caller, or into lookup, which returns the
\* chunk as LookupResult::Chunk or goes on to call get_graph_entry
HFinishGet(p, r, events) ==
    IF hop[p] # "lookup"
    THEN HReturn(p, r, events) /\ UNCHANGED gets
    ELSE IF r.val = "Some"
    THEN HReturn(p, HOk("Chunk", r.chunk), events) /\ UNCHANGED gets
    ELSE HMove(p, "lookup_graph", NoChunk, events) /\ gets' = gets + 1

\* HybridClient::with_node: the builder takes the client by value, so no
\* future borrows it, and hands it back with the node attached to its
\* QuantumClient; the counters go with it
with_node ==
    /\ \A p \in HProcs : hpc[p] = "idle"
    /\ p2pNode' = TRUE
    /\ UNCHANGED <<autoMigrate, legacyConnected, dht, legacyNet, stats, hpc, hop, hkey,
                   hchunk, hreturned, htrace, hcalls, gets, payVars, restVars>>

\* a read that hands the primary's error to its caller
get_primary_propagating(p, kind, key, outcome) ==
    /\ HCall(p)
    /\ gets' = gets + 1
    /\ UNCHANGED <<HEnv, dht>>
    /\ LET r == quantum_get(kind, key, p2pNode, dht, outcome)
       IN  IF r.ok /\ r.val = "Some"
           THEN /\ stats' = [stats EXCEPT !.saorsa_hits = @ + 1]
                /\ HReturnNow(kind, key, r, <<"primary_some", "saorsa_hits">>)
           ELSE IF ~r.ok
           THEN /\ HReturnNow(kind, key, r, <<"primary_err">>)
                /\ UNCHANGED stats
           ELSE IF kind = "chunk"
           THEN /\ HAwait(p, "legacy", kind, key, <<"primary_none">>)
                /\ UNCHANGED stats
           ELSE /\ stats' = miss_stats(stats)
                /\ HReturnNow(kind, key, legacy_get(kind, key, legacyNet, "Unsupported"),
                              <<"primary_none", "Unsupported", "misses">>)

\* HybridClient::get_chunk / get_scratchpad / get_pointer / get_graph_entry
\* is called and its primary probe returns: the hit count and the record on
\* Ok(Some), the legacy probe on Ok(None) and on Err.  The legacy chunk probe
\* is a second await; the legacy scratchpad, pointer and graph reads never
\* suspend, and as they return Ok(None) the miss is counted in the same step;
\* migrate_scratchpad, migrate_pointer and migrate_graph_entry, which would
\* follow a legacy hit, are never entered
get_primary(p, kind, key, outcome) ==
    /\ HCall(p)
    /\ gets' = gets + 1
    /\ UNCHANGED <<HEnv, dht>>
    /\ LET r == quantum_get(kind, key, p2pNode, dht, outcome)
       IN  IF r.ok /\ r.val = "Some"
           THEN /\ stats' = [stats EXCEPT !.saorsa_hits = @ + 1]
                /\ HReturnNow(kind, key, r, <<"primary_some", "saorsa_hits">>)
           ELSE IF kind = "chunk"
           THEN /\ HAwait(p, "legacy", kind, key,
                          IF r.ok THEN <<"primary_none">> ELSE <<"primary_err">>)
                /\ UNCHANGED stats
           ELSE LET l == legacy_get_typed(kind, key, legacyConnected)
                    seen == IF r.ok THEN <<"primary_none">> ELSE <<"primary_err">>
                IN  IF l.val = "Some"
                    THEN /\ stats' = legacy_hit_stats(stats)
                         /\ IF autoMigrate
                            THEN HAwait(p, "migrate_typed", kind, key,
                                        seen \o <<"autonomi_hits">>)
                            ELSE HReturnNow(kind, key, l, seen \o <<"autonomi_hits">>)
                    ELSE /\ stats' = miss_stats(stats)
                         /\ HReturnNow(kind, key, l,
                                       seen \o <<"Unsupported", "misses">>)

\* the legacy probe of get_chunk returns: `?` on an error, the hit count
\* and the auto-migrate test on Some, the miss count on None
get_legacy(p, outcome) ==
    /\ hpc[p] = "legacy"
    /\ outcome \in LegacyOutcomes(hkey[p])
    /\ UNCHANGED <<HConfig, dht>>
    /\ LET r == legacy_get(HKind(p), hkey[p], legacyNet, outcome)
       IN  IF ~r.ok
           THEN /\ HReturn(p, r, <<outcome>>)
                /\ UNCHANGED <<stats, gets>>
           ELSE IF r.val = "Some"
           THEN /\ stats' = legacy_hit_stats(stats)
                /\ IF autoMigrate
                   THEN HMove(p, "migrate", r.chunk, <<outcome, "autonomi_hits">>)
                            /\ UNCHANGED gets
                   ELSE HFinishGet(p, r, <<outcome, "autonomi_hits">>)
           ELSE /\ stats' = miss_stats(stats)
                /\ HFinishGet(p, r, <<outcome, "misses">>)

\* migrate_chunk: the put_chunk it awaits returns; `?` on its error, else
\* the content is on the primary network and the future goes on, holding
\* the legacy chunk, to take the stats lock
migrate_chunk(p, outcome) ==
    /\ hpc[p] = "migrate"
    /\ UNCHANGED <<HConfig, stats, gets>>
    /\ LET r == quantum_put_chunk(hchunk[p].content, p2pNode, outcome)
       IN  IF ~r.ok
           THEN /\ HReturn(p, r, <<"migrate_err">>)
                /\ UNCHANGED dht
           ELSE /\ dht' = [dht EXCEPT ![r.chunk.address] = Some(r.chunk.content)]
                /\ HMove(p, "migrated", hchunk[p], <<"migrate_ok">>)

\* migrate_chunk, after its put: self.stats.write().migrations += 1, and
\* get_chunk returns the legacy chunk
count_migration(p) ==
    /\ hpc[p] = "migrated"
    /\ UNCHANGED <<HConfig, dht>>
    /\ stats' = [stats EXCEPT !.migrations = @ + 1]
    /\ HFinishGet(p, HOk("Some", hchunk[p]), <<"migrations">>)

\* HybridClient::put_chunk is called and the primary put it awaits returns:
\* `?` on its error, else the content is stored and the write is yet to be
\* counted
put_chunk(p, content, outcome) ==
    /\ HCall(p)
    /\ UNCHANGED <<HEnv, stats, gets>>
    /\ LET r == quantum_put_chunk(content, p2pNode, outcome)
       IN  IF ~r.ok
           THEN /\ HReturnNow("put_chunk", 0, r, <<"put_err">>)
                /\ UNCHANGED dht
           ELSE /\ dht' = [dht EXCEPT ![r.chunk.address] = Some(r.chunk.content)]
                /\ HStore(p, "stored", "put_chunk", 0, r.chunk, <<"put_ok">>)

\* HybridClient::put_scratchpad is called and quantum.put_scratchpad(..).await?
\* returns
put_scratchpad(p, owner, content_type, payload, counter, outcome) ==
    /\ HCall(p)
    /\ UNCHANGED <<HEnv, stats, gets>>
    /\ LET r == quantum_put_scratchpad(owner, content_type, payload, counter, p2pNode, outcome)
       IN  IF ~r.ok
           THEN /\ HReturnNow("put_scratchpad", owner, r, <<"put_err">>)
                /\ UNCHANGED dht
           ELSE /\ dht' = [dht EXCEPT ![r.chunk.address] = Some(r.chunk.content)]
                /\ HStore(p, "stored", "put_scratchpad", owner, r.chunk, <<"put_ok">>)

\* HybridClient::put_pointer is called and quantum.put_pointer(..).await? returns
put_pointer(p, owner, target, counter, outcome) ==
    /\ HCall(p)
    /\ UNCHANGED <<HEnv, stats, gets>>
    /\ LET r == quantum_put_pointer(owner, target, counter, p2pNode, outcome)
       IN  IF ~r.ok
           THEN /\ HReturnNow("put_pointer", owner, r, <<"put_err">>)
                /\ UNCHANGED dht
           ELSE /\ dht' = [dht EXCEPT ![r.chunk.address] = Some(r.chunk.content)]
                /\ HStore(p, "stored", "put_pointer", owner, r.chunk, <<"put_ok">>)

\* HybridClient::put_graph_entry is called and quantum.put_graph_entry(..).await?
\* returns
put_graph_entry(p, owner, parents, content, outcome) ==
    /\ HCall(p)
    /\ UNCHANGED <<HEnv, stats, gets>>
    /\ LET r == quantum_put_graph_entry(owner, parents, content, p2pNode, outcome)
       IN  IF ~r.ok
           THEN /\ HReturnNow("put_graph_entry", owner, r, <<"put_err">>)
                /\ UNCHANGED dht
           ELSE /\ dht' = [dht EXCEPT ![r.chunk.address] = Some(r.chunk.content)]
                /\ HStore(p, "stored", "put_graph_entry", owner, r.chunk, <<"put_ok">>)

\* put_chunk, put_scratchpad, put_pointer and put_graph_entry, after their
\* put: self.stats.write().saorsa_writes += 1, and the address or the entry
\* goes to the caller
count_write(p) ==
    /\ hpc[p] = "stored"
    /\ UNCHANGED <<HConfig, dht, gets>>
    /\ stats' = [stats EXCEPT !.saorsa_writes = @ + 1]
    /\ HReturn(p, HOk(IF hop[p] = "put_chunk" THEN "Address" ELSE "Entry", hchunk[p]),
               <<"saorsa_writes">>)

\* HybridClient::lookup is called: it calls get_chunk, whose primary probe returns
lookup(p, address, outcome) ==
    /\ HCall(p)
    /\ gets' = gets + 1
    /\ UNCHANGED <<HEnv, dht>>
    /\ LET r == quantum_get("chunk", address, p2pNode, dht, outcome)
       IN  IF r.ok /\ r.val = "Some"
           THEN /\ stats' = [stats EXCEPT !.saorsa_hits = @ + 1]
                /\ HReturnNow("lookup", address, HOk("Chunk", r.chunk),
                              <<"primary_some", "saorsa_hits">>)
           ELSE /\ HAwait(p, "legacy", "lookup", address,
                          IF r.ok THEN <<"primary_none">> ELSE <<"primary_err">>)
                /\ UNCHANGED stats

\* a lookup that counts the miss of its get_graph_entry twice
lookup_graph_recounting(p, outcome) ==
    /\ hpc[p] = "lookup_graph"
    /\ UNCHANGED <<HConfig, dht, gets>>
    /\ LET r == quantum_get("graph", hkey[p], p2pNode, dht, outcome)
       IN  IF r.ok /\ r.val = "Some"
           THEN /\ stats' = [stats EXCEPT !.saorsa_hits = @ + 1]
                /\ HReturn(p, HOk("GraphEntry", r.chunk), <<"primary_some", "saorsa_hits">>)
           ELSE /\ stats' = miss_stats(miss_stats(stats))
                /\ HReturn(p, HOk("NotFound", NoChunk),
                           (IF r.ok THEN <<"primary_none">> ELSE <<"primary_err">>)
                                \o <<"Unsupported", "misses">>)

\* lookup found no chunk and called get_graph_entry, whose primary probe
\* returns; the legacy get_graph_entry that follows a failure never suspends
lookup_graph(p, outcome) ==
    /\ hpc[p] = "lookup_graph"
    /\ UNCHANGED <<HConfig, dht, gets>>
    /\ LET r == quantum_get("graph", hkey[p], p2pNode, dht, outcome)
       IN  IF r.ok /\ r.val = "Some"
           THEN /\ stats' = [stats EXCEPT !.saorsa_hits = @ + 1]
                /\ HReturn(p, HOk("GraphEntry", r.chunk), <<"primary_some", "saorsa_hits">>)
           ELSE /\ stats' = miss_stats(stats)
                /\ HReturn(p, HOk("NotFound", NoChunk),
                           (IF r.ok THEN <<"primary_none">> ELSE <<"primary_err">>)
                                \o <<"Unsupported", "misses">>)

\* an exists that returns the error of its primary probe
exists_primary_propagating(p, address, outcome) ==
    /\ HCall(p)
    /\ UNCHANGED <<HEnv, dht, stats, gets>>
    /\ LET r == quantum_exists(address, p2pNode, dht, outcome)
       IN  IF ~r.ok
           THEN HReturnNow("exists", address, r, <<"primary_err">>)
           ELSE IF r.val = "true"
           THEN HReturnNow("exists", address, HOk("Saorsa", NoChunk), <<"primary_true">>)
           ELSE HAwait(p, "ex_legacy", "exists", address, <<"primary_false">>)

\* HybridClient::exists is called and its primary probe returns
exists_primary(p, address, outcome) ==
    /\ HCall(p)
    /\ UNCHANGED <<HEnv, dht, stats, gets>>
    /\ LET r == quantum_exists(address, p2pNode, dht, outcome)
       IN  IF r.ok /\ r.val = "true"
           THEN HReturnNow("exists", address, HOk("Saorsa", NoChunk), <<"primary_true">>)
           ELSE HAwait(p, "ex_legacy", "exists", address,
                       IF r.ok THEN <<"primary_false">> ELSE <<"primary_err">>)

\* HybridClient::exists: the legacy probe returns
exists_legacy(p, outcome) ==
    /\ hpc[p] = "ex_legacy"
    /\ outcome \in LegacyOutcomes(hkey[p])
    /\ UNCHANGED <<HConfig, dht, stats, gets>>
    /\ LET r == legacy_exists(hkey[p], outcome)
       IN  IF ~r.ok THEN HReturn(p, r, <<outcome>>)
           ELSE IF r.val = "true" THEN HReturn(p, HOk("Autonomi", NoChunk), <<outcome>>)
           ELSE HReturn(p, HOk("None", NoChunk), <<outcome>>)

\* HybridClient::reset_stats
reset_stats ==
    /\ stats # ZeroStats
    /\ stats' = ZeroStats
    /\ UNCHANGED <<p2pNode, autoMigrate, legacyConnected, dht, legacyNet, hpc, hop, hkey,
                   hchunk, hreturned, htrace, hcalls, gets, payVars, restVars>>

\* a stats() that reads the miss counter apart from the others, after a reset
stats_snapshot_torn ==
    /\ hreturned # Returned("stats", 0, [stats EXCEPT !.misses = 0], << >>)
    /\ hreturned' = Returned("stats", 0, [stats EXCEPT !.misses = 0], << >>)
    /\ UNCHANGED <<p2pNode, autoMigrate, legacyConnected, dht, legacyNet, stats, hpc, hop,
                   hkey, hchunk, htrace, hcalls, gets, payVars, restVars>>

\* HybridClient::stats: self.stats.read().clone() goes to the caller
stats_snapshot ==
    /\ hreturned # Returned("stats", 0, stats, << >>)
    /\ hreturned' = Returned("stats", 0, stats, << >>)
    /\ UNCHANGED <<p2pNode, autoMigrate, legacyConnected, dht, legacyNet, stats, hpc, hop,
                   hkey, hchunk, htrace, hcalls, gets, payVars, restVars>>

LegacyOutcomeNames == {"NotConnected", "Found", "RecordNotFound", "QueryError", "Timeout"}

HybridNext ==
    \/ \E p \in HProcs, kind \in Kinds, outcome \in DhtOutcomes :
            \E key \in Keys(kind) : get_primary(p, kind, key, outcome)
    \/ \E p \in HProcs, outcome \in LegacyOutcomeNames : get_legacy(p, outcome)
    \/ \E p \in HProcs, outcome \in DhtOutcomes : migrate_chunk(p, outcome)
    \/ \E p \in HProcs : count_migration(p)
    \/ \E p \in HProcs, content \in Contents, outcome \in DhtOutcomes :
            put_chunk(p, content, outcome)
    \/ \E p \in HProcs : count_write(p)
    \/ with_node
    \/ \E p \in HProcs, address \in Addrs, outcome \in DhtOutcomes :
            exists_primary(p, address, outcome)
    \/ \E p \in HProcs, outcome \in LegacyOutcomeNames : exists_legacy(p, outcome)
    \/ reset_stats

\* the arguments of the typed writes
ContentTypes == {0}
Counters == 0..MaxCounter
Targets == {1}

\* the addresses a caller reads: those of chunks and those of graph entries
ClientAddrs == Addrs \cup GraphAddrs
ClientKeys(kind) == IF kind \in {"scratchpad", "pointer"} THEN Owners ELSE ClientAddrs

\* the reads, lookups, chunk writes and probes of concurrent callers
CallerNext ==
    \/ \E p \in HProcs, kind \in Kinds, outcome \in DhtOutcomes :
            \E key \in Keys(kind) : get_primary(p, kind, key, outcome)
    \/ \E p \in HProcs, outcome \in LegacyOutcomeNames : get_legacy(p, outcome)
    \/ \E p \in HProcs, outcome \in DhtOutcomes : migrate_chunk(p, outcome)
    \/ \E p \in HProcs : count_migration(p)
    \/ \E p \in HProcs, content \in Contents, outcome \in DhtOutcomes :
            put_chunk(p, content, outcome)
    \/ \E p \in HProcs : count_write(p)
    \/ with_node
    \/ \E p \in HProcs, address \in Addrs, outcome \in DhtOutcomes :
            lookup(p, address, outcome)
    \/ \E p \in HProcs, outcome \in DhtOutcomes : lookup_graph(p, outcome)
    \/ \E p \in HProcs, address \in Addrs, outcome \in DhtOutcomes :
            exists_primary(p, address, outcome)
    \/ \E p \in HProcs, outcome \in LegacyOutcomeNames : exists_legacy(p, outcome)
    \/ reset_stats

\* the writes and reads of concurrent callers, on a client whose legacy network
\* is not connected
ClientNext ==
    \/ \E p \in HProcs, kind \in Kinds, outcome \in DhtOutcomes :
            \E key \in ClientKeys(kind) : get_primary(p, kind, key, outcome)
    \/ \E p \in HProcs, outcome \in LegacyOutcomeNames : get_legacy(p, outcome)
    \/ \E p \in HProcs, content \in Contents, outcome \in DhtOutcomes :
            put_chunk(p, content, outcome)
    \/ \E p \in HProcs, owner \in Owners, content_type \in ContentTypes,
          payload \in Contents, counter \in Counters, outcome \in DhtOutcomes :
            put_scratchpad(p, owner, content_type, payload, counter, outcome)
    \/ \E p \in HProcs, owner \in Owners, target \in Targets, counter \in Counters,
          outcome \in DhtOutcomes : put_pointer(p, owner, target, counter, outcome)
    \/ \E p \in HProcs, owner \in GraphOwners, parents \in GraphParents,
          content \in GraphContents, outcome \in DhtOutcomes :
            put_graph_entry(p, owner, parents, content, outcome)
    \/ \E p \in HProcs : count_write(p)
    \/ \E p \in HProcs, address \in ClientAddrs, outcome \in DhtOutcomes :
            lookup(p, address, outcome)
    \/ \E p \in HProcs, outcome \in DhtOutcomes : lookup_graph(p, outcome)
    \/ reset_stats
    \/ stats_snapshot

(***************************************************************************)
(* VerifiedCache used directly, src/payment/cache.rs.  The cache keeps the *)
(* LRU and the counters behind two mutexes, so contains and insert are two *)
(* critical sections each; len, is_empty and stats read under one lock.    *)
(***************************************************************************)
MaxCacheCalls == 4

\* one xorname more than the largest capacity, so that a full cache can be
\* offered a key it does not hold
CacheKeys == 1..(MaxCapacity + 1)

CacheInit ==
    /\ cpc = "idle"
    /\ history = << >>

CacheIdle == CacheInit

CacheFrame == <<capacity, evmEnabled, vpc, vcid, vproof, vresult, vtrace, vcalls,
                verified, lastStep, hybridVars, migVars, nodeVars, extractVars,
                upgradeVars, rolloutVars>>

\* VerifiedCache::len and VerifiedCache::is_empty: reads under the inner lock
len == Len(lru)
is_empty == lru = << >>

\* VerifiedCache::stats: a clone of the counters under the stats lock
cache_stats == cacheStats

\* VerifiedCache::contains, first critical section: the lookup in the LRU
contains(xorname) ==
    /\ cpc = "idle"
    /\ Len(history) < MaxCacheCalls
    /\ lru' = LruGet(lru, xorname)
    /\ cpc' = IF xorname \in Range(lru) THEN "hit" ELSE "miss"
    /\ history' = Append(history, <<"contains", xorname>>)
    /\ UNCHANGED <<cacheStats, CacheFrame>>

\* VerifiedCache::contains, second critical section: hits or misses
contains_record ==
    /\ cpc \in {"hit", "miss"}
    /\ cacheStats' = contains_stats(cacheStats, cpc = "hit")
    /\ cpc' = "idle"
    /\ UNCHANGED <<lru, history, CacheFrame>>

\* VerifiedCache::insert, first critical section: the put into the LRU
insert(xorname) ==
    /\ cpc = "idle"
    /\ Len(history) < MaxCacheCalls
    /\ lru' = LruPut(lru, xorname, with_capacity(capacity))
    /\ cpc' = "added"
    /\ history' = Append(history, <<"insert", xorname>>)
    /\ UNCHANGED <<cacheStats, CacheFrame>>

\* VerifiedCache::insert, second critical section: additions
insert_record ==
    /\ cpc = "added"
    /\ cacheStats' = insert_stats(cacheStats)
    /\ cpc' = "idle"
    /\ UNCHANGED <<lru, history, CacheFrame>>

\* VerifiedCache::clear empties the LRU and leaves the counters
clear ==
    /\ cpc = "idle"
    /\ Len(history) < MaxCacheCalls
    /\ lru' = << >>
    /\ history' = Append(history, <<"clear", 0>>)
    /\ UNCHANGED <<cpc, cacheStats, CacheFrame>>

CacheNext ==
    \/ \E xorname \in CacheKeys : contains(xorname)
    \/ contains_record
    \/ \E xorname \in CacheKeys : insert(xorname)
    \/ insert_record
    \/ clear

(***************************************************************************)
(* AntDataMigrator, src/migration/mod.rs.                                  *)
(***************************************************************************)
MaxRecords == 3

\* the period of the progress sent, counted in records
ProgressEvery == 100

\* files the walk takes for records: with content, with content sealed under
\* the master key, empty, or not readable
RecordKinds == {"data", "sealed", "empty", "unreadable"}

\* the walk also meets files with another extension and directories it
\* cannot read
FileKinds == RecordKinds \cup {"other", "baddir"}

Listings == UNION {[1..n -> FileKinds] : n \in 0..MaxRecords}

\* two record stores with more records than the period of the progress
\* events, so that an event falls due between the first and the last record
LongListings == {[i \in 1..(ProgressEvery + 2) |-> kind] : kind \in {"data", "empty"}}

ZeroMigrationStats == [migrated |-> 0, failed |-> 0, skipped |-> 0]

MigInit ==
    /\ recordStore \in BOOLEAN
    /\ dirEntries \in Listings \cup LongListings
    /\ masterKey \in BOOLEAN
    /\ mgpc = "idle"
    /\ record_paths = << >>
    /\ midx = 0
    /\ mstats = ZeroMigrationStats
    /\ mresult = NoResult
    /\ processed = << >>
    /\ sent = << >>

\* a node without ant-node data to migrate
MigIdle == MigInit /\ ~recordStore /\ dirEntries = << >> /\ ~masterKey

MigFrame == <<recordStore, dirEntries, masterKey, payVars, hybridVars, cacheVars,
              nodeVars, extractVars, upgradeVars, rolloutVars>>

\* walk_directory from entry i on: the files without extension or with the
\* extension record or chunk, in walk order; a directory that cannot be read
\* ends the walk with an error
walk_directory(entries, i) ==
    IF \E j \in i..Len(entries) : entries[j] = "baddir"
    THEN Err("Migration", "Failed to read directory")
    ELSE Ok(SelectSeq([j \in 1..Len(entries) |-> j],
                      LAMBDA j : j >= i /\ entries[j] \in RecordKinds))

\* a scan that does not look whether record_store exists
find_record_files_unchecked == walk_directory(dirEntries, 1)

\* find_record_files: nothing without a record_store directory
find_record_files ==
    IF ~recordStore THEN Ok(<< >>) ELSE walk_directory(dirEntries, 1)

\* directory names are sequences of characters
Rep(c, n) == [i \in 1..n |-> c]

HexDigits == <<"0", "1", "2", "3", "4", "5", "6", "7", "8", "9",
               "a", "b", "c", "d", "e", "f">>
UpperHexDigits == <<"0", "1", "2", "3", "4", "5", "6", "7", "8", "9",
                    "A", "B", "C", "D", "E", "F">>

\* char::is_ascii_hexdigit: 0-9, a-f and A-F
is_ascii_hexdigit(c) == c \in Range(HexDigits) \cup Range(UpperHexDigits)

\* the value of one hex digit, of either case
HexVal(c) == (CHOOSE i \in 1..16 : HexDigits[i] = c \/ UpperHexDigits[i] = c) - 1

\* hex::decode of a string of hex digits of even length
hex_decode(str) ==
    [i \in 1..(Len(str) \div 2) |-> 16 * HexVal(str[2 * i - 1]) + HexVal(str[2 * i])]

\* the test extract_xorname_from_path makes on a name, and the XorName it
\* takes from the first 64 characters
xorname_of(name) ==
    IF Len(name) >= 64 /\ \A i \in DOMAIN name : is_ascii_hexdigit(name[i])
    THEN LET bytes == hex_decode(SubSeq(name, 1, 64))
         IN  IF Len(bytes) = 32 THEN Some(bytes) ELSE None
    ELSE None

\* the directories above a record file; a directory that is missing has no name
NoName == <<"/">>
PathAbove(grandparent, parent) == [grandparent |-> grandparent, parent |-> parent]

\* extract_xorname_from_path: the parent directory's name, then the
\* grandparent's name followed by the parent's
extract_xorname_from_path(path) ==
    IF path.parent = NoName THEN None
    ELSE IF xorname_of(path.parent).some THEN xorname_of(path.parent)
    ELSE IF path.grandparent = NoName THEN None
    ELSE xorname_of(path.grandparent \o path.parent)

\* the layout ant-node writes: record_store/aa/aaaa...(64)/record
RecordPath == PathAbove(Rep("a", 2), Rep("a", 64))

\* process_record: the outcome for one record file, and the AntRecord it
\* builds and drops; with a master key and a XorName from the path it derives
\* the record key and tries to decrypt, and keeps the raw content when that
\* fails
process_record(kind, path) ==
    IF kind = "unreadable" THEN [result |-> Err("Migration", "Failed to read record"),
                                attempted |-> FALSE, record |-> ""]
    ELSE IF kind = "empty" THEN [result |-> Ok("Skipped"), attempted |-> FALSE,
                                 record |-> ""]
    ELSE LET xorname == extract_xorname_from_path(path)
             attempted == masterKey /\ xorname.some
         IN  [result |-> Ok("Migrated"),
              attempted |-> attempted,
              record |-> IF attempted /\ kind = "sealed" THEN "decrypted" ELSE kind]

\* an event that reports the records still to migrate
MigrationRemaining(migrated, total) ==
    [type |-> "MigrationProgress", migrated |-> total - migrated, total |-> total]

\* NodeEvent::MigrationProgress
MigrationProgress(migrated, total) ==
    [type |-> "MigrationProgress", migrated |-> migrated, total |-> total]

\* counters that take a failed record for a skipped one
count_record_lenient(st, result) ==
    IF result.ok /\ result.val = "Migrated" THEN [st EXCEPT !.migrated = @ + 1]
    ELSE [st EXCEPT !.skipped = @ + 1]

\* the counters after one record
count_record(st, result) ==
    IF ~result.ok THEN [st EXCEPT !.failed = @ + 1]
    ELSE IF result.val = "Migrated" THEN [st EXCEPT !.migrated = @ + 1]
    ELSE [st EXCEPT !.skipped = @ + 1]

\* progress events after the first and the last record only
progress_due_first_last(idx, n) == idx = 0 \/ idx = n - 1

\* a progress event is due after the record at idx (counted from 0) of n
progress_due(idx, n) == idx % ProgressEvery = 0 \/ idx = n - 1

\* migrate up to its loop: the scan, the early returns, the first event
migrate ==
    /\ mgpc = "idle"
    /\ LET found == find_record_files
           total == Len(found.val)
       IN  IF ~found.ok
           THEN /\ mresult' = found
                /\ mgpc' = "returned"
                /\ UNCHANGED <<record_paths, sent>>
           ELSE IF total = 0
           THEN /\ mresult' = Ok(mstats)
                /\ mgpc' = "returned"
                /\ UNCHANGED <<record_paths, sent>>
           ELSE /\ record_paths' = found.val
                /\ sent' = Append(sent, MigrationProgress(0, total))
                /\ mgpc' = "loop"
                /\ UNCHANGED mresult
    /\ UNCHANGED <<midx, mstats, processed, MigFrame>>

\* one turn of migrate's loop: process_record, the counter, the progress event
migrate_record ==
    /\ mgpc = "loop"
    /\ midx < Len(record_paths)
    /\ LET path == record_paths[midx + 1]
           done == process_record(dirEntries[path], RecordPath)
           after == count_record(mstats, done.result)
       IN  /\ processed' = Append(processed, path)
           /\ mstats' = after
           /\ sent' = IF progress_due(midx, Len(record_paths))
                        THEN Append(sent,
                                    MigrationProgress(after.migrated, Len(record_paths)))
                        ELSE sent
    /\ midx' = midx + 1
    /\ UNCHANGED <<mgpc, record_paths, mresult, MigFrame>>

\* migrate after its loop: Ok(stats)
migrate_return ==
    /\ mgpc = "loop"
    /\ midx = Len(record_paths)
    /\ mresult' = Ok(mstats)
    /\ mgpc' = "returned"
    /\ UNCHANGED <<record_paths, midx, mstats, processed, sent, MigFrame>>

MigrateNext ==
    \/ migrate
    \/ migrate_record
    \/ migrate_return

(***************************************************************************)
(* process_record on one file under directories of any name,               *)
(* src/migration/mod.rs.                                                   *)
(***************************************************************************)
NameChars == {"a", "F", "g"}
NameLens == {2, 62, 63, 64, 66}
Names == {Rep(c, n) : c \in NameChars, n \in NameLens}
Paths == {PathAbove(g, q) : g \in Names \cup {NoName}, q \in Names}

NoOut == [result |-> NoResult, attempted |-> FALSE, record |-> ""]

ExtractIdle == xpath = RecordPath /\ xout = NoOut

ExtractInit ==
    /\ xpath \in Paths
    /\ xout = NoOut
    /\ MigInit
    /\ recordStore
    /\ dirEntries \in {<<kind>> : kind \in RecordKinds}

\* process_record is called on the file
process_one ==
    /\ xout = NoOut
    /\ xout' = process_record(dirEntries[1], xpath)
    /\ UNCHANGED <<xpath, payVars, hybridVars, cacheVars, migVars, nodeVars, upgradeVars,
                   rolloutVars>>

ExtractNext ==
    \/ process_one

(***************************************************************************)
(* RunningNode, src/node.rs, and the task it spawns around                 *)
(* UpgradeMonitor, src/upgrade/monitor.rs.                                 *)
(***************************************************************************)
MaxPolls == 2

\* UpgradeMonitor::check_interval, counted in ticks of the clock
CheckTicks == 2

NodeInit ==
    /\ hasMigrator \in BOOLEAN
    /\ hasMonitor \in BOOLEAN
    /\ npc = "built"
    /\ shutdownVal = FALSE
    /\ runUnseen = FALSE
    /\ monUnseen = FALSE
    /\ mpc = "none"
    /\ msleep = 0
    /\ polls = 0

\* a node that is not run
NodeIdle == NodeInit /\ ~hasMigrator /\ ~hasMonitor

NodeFrame == <<hasMigrator, hasMonitor, payVars, hybridVars, cacheVars, recordStore,
               dirEntries, masterKey, mgpc, record_paths, midx, mstats, mresult,
               processed, extractVars, upgradeVars, rolloutVars>>

Event(type) == [type |-> type]

\* NodeEvent::MigrationComplete
MigrationComplete(total) == [type |-> "MigrationComplete", total |-> total]

\* UpgradeMonitor::check_for_updates: no request is made, the answer is None
check_for_updates == Ok(None)

\* a shutdown that stores the value without waking the receivers
shutdown_unnoticed ==
    /\ npc = "built"
    /\ ~shutdownVal
    /\ shutdownVal' = TRUE
    /\ UNCHANGED <<npc, runUnseen, monUnseen, mpc, msleep, polls, sent, NodeFrame>>

\* RunningNode::shutdown called before run: the watch channel takes true
shutdown ==
    /\ npc = "built"
    /\ ~shutdownVal
    /\ shutdownVal' = TRUE
    /\ runUnseen' = TRUE
    /\ UNCHANGED <<npc, monUnseen, mpc, msleep, polls, sent, NodeFrame>>

\* run up to the migration: the Started event
run_started ==
    /\ npc = "built"
    /\ sent' = Append(sent, Event("Started"))
    /\ npc' = IF hasMigrator THEN "migrating" ELSE "spawn"
    /\ UNCHANGED <<shutdownVal, runUnseen, monUnseen, mpc, msleep, polls, NodeFrame>>

\* run awaits migrate
run_migrate == npc = "migrating" /\ migrate
run_migrate_record == npc = "migrating" /\ migrate_record
run_migrate_return == npc = "migrating" /\ migrate_return

\* a run that gives up when migrate fails
run_migrated_fatal ==
    /\ npc = "migrating"
    /\ mgpc = "returned"
    /\ sent' = Append(sent, IF mresult.ok THEN MigrationComplete(mresult.val.migrated)
                            ELSE Event("Error"))
    /\ npc' = IF mresult.ok THEN "spawn" ELSE "returned"
    /\ UNCHANGED <<shutdownVal, runUnseen, monUnseen, mpc, msleep, polls, NodeFrame>>

\* run after migrate: MigrationComplete or Error
run_migrated ==
    /\ npc = "migrating"
    /\ mgpc = "returned"
    /\ sent' = Append(sent, IF mresult.ok THEN MigrationComplete(mresult.val.migrated)
                            ELSE Event("Error"))
    /\ npc' = "spawn"
    /\ UNCHANGED <<shutdownVal, runUnseen, monUnseen, mpc, msleep, polls, NodeFrame>>

\* run spawns the monitor task with a clone of its shutdown receiver and
\* drops the JoinHandle
run_spawn ==
    /\ npc = "spawn"
    /\ IF hasMonitor
       THEN mpc' = "select" /\ monUnseen' = runUnseen
       ELSE UNCHANGED <<mpc, monUnseen>>
    /\ npc' = "loop"
    /\ UNCHANGED <<shutdownVal, runUnseen, msleep, polls, sent, NodeFrame>>

\* run's loop, shutdown_rx.changed(): leaves the loop when the value is true
run_changed ==
    /\ npc = "loop"
    /\ runUnseen
    /\ runUnseen' = FALSE
    /\ npc' = IF shutdownVal THEN "stopping" ELSE "loop"
    /\ UNCHANGED <<shutdownVal, monUnseen, mpc, msleep, polls, sent, NodeFrame>>

\* run's loop, ctrl_c: self.shutdown() and out of the loop
run_ctrl_c ==
    /\ npc = "loop"
    /\ shutdownVal' = TRUE
    /\ runUnseen' = TRUE
    /\ monUnseen' = (mpc # "none")
    /\ npc' = "stopping"
    /\ UNCHANGED <<mpc, msleep, polls, sent, NodeFrame>>

\* a return without the ShuttingDown event
run_return_silent ==
    /\ npc = "stopping"
    /\ npc' = "returned"
    /\ UNCHANGED <<shutdownVal, runUnseen, monUnseen, mpc, msleep, polls, sent, NodeFrame>>

\* run after its loop: the ShuttingDown event and Ok(())
run_return ==
    /\ npc = "stopping"
    /\ sent' = Append(sent, Event("ShuttingDown"))
    /\ npc' = "returned"
    /\ UNCHANGED <<shutdownVal, runUnseen, monUnseen, mpc, msleep, polls, NodeFrame>>

\* the monitor task's select, shutdown_rx.changed(): ends the task when the
\* value is true
monitor_changed ==
    /\ mpc = "select"
    /\ monUnseen
    /\ monUnseen' = FALSE
    /\ mpc' = IF shutdownVal THEN "stopped" ELSE "select"
    /\ UNCHANGED <<npc, shutdownVal, runUnseen, msleep, polls, sent, NodeFrame>>

\* the monitor task's select, check_for_updates: it is ready at once, so the
\* select may take it whether or not the shutdown branch is ready too; the
\* branch sends UpgradeAvailable for Ok(Some(_)) and then sleeps
monitor_check ==
    /\ mpc = "select"
    /\ polls < MaxPolls
    /\ polls' = polls + 1
    /\ sent' = IF check_for_updates.ok /\ check_for_updates.val.some
               THEN Append(sent, Event("UpgradeAvailable"))
               ELSE sent
    /\ mpc' = "sleeping"
    /\ msleep' = CheckTicks
    /\ UNCHANGED <<npc, shutdownVal, runUnseen, monUnseen, NodeFrame>>

\* time passes while the monitor task sleeps inside the branch
monitor_sleep ==
    /\ mpc = "sleeping"
    /\ msleep > 0
    /\ msleep' = msleep - 1
    /\ UNCHANGED <<npc, shutdownVal, runUnseen, monUnseen, mpc, polls, sent, NodeFrame>>

\* the sleep is over: back to the select
monitor_wake ==
    /\ mpc = "sleeping"
    /\ msleep = 0
    /\ mpc' = "select"
    /\ UNCHANGED <<npc, shutdownVal, runUnseen, monUnseen, msleep, polls, sent,
                   NodeFrame>>

NodeNext ==
    \/ shutdown
    \/ run_started
    \/ run_migrate
    \/ run_migrate_record
    \/ run_migrate_return
    \/ run_migrated
    \/ run_spawn
    \/ run_changed
    \/ run_ctrl_c
    \/ run_return
    \/ monitor_changed
    \/ monitor_check
    \/ monitor_sleep
    \/ monitor_wake

(***************************************************************************)
(* upgrade/signature.rs and upgrade/mod.rs.  ML-DSA-65 itself is the       *)
(* saorsa_pqc library: a signature is the key that made it, the message    *)
(* and the context it was made over, and verify_with_context holds for     *)
(* exactly that key, message and context.                                  *)
(***************************************************************************)
NumSigners == 2
NumBinaries == 2

SIGNATURE_SIZE == 3309
PUBLIC_KEY_SIZE == 1952
SIGNING_CONTEXT == "saorsa-node-release-v1"

\* the embedded release key: no bytes
RELEASE_SIGNING_KEY == << >>

Signers == 1..NumSigners
Binaries == 1..NumBinaries

\* signature bytes: of some length; when of the right length they may parse,
\* and then they are a signature by key over body under ctx
Signatures ==
    [key : Signers, body : Binaries, ctx : {SIGNING_CONTEXT, "wrong-context-string"},
     len : {SIGNATURE_SIZE - 1, SIGNATURE_SIZE}, parses : BOOLEAN]

\* ml_dsa_65().sign_with_context(secret key of `key`, body, ctx).to_bytes()
sign_with_context(key, body, ctx) ==
    [key |-> key, body |-> body, ctx |-> ctx, len |-> SIGNATURE_SIZE, parses |-> TRUE]

\* ml_dsa_65().verify_with_context
verify_with_context(public_key, message, sig, ctx) ==
    sig.key = public_key /\ sig.body = message /\ sig.ctx = ctx

NoCall == [op |-> "none", result |-> NoResult]

UpgradeInit ==
    /\ ubin \in {0} \cup Binaries
    /\ usig \in Signatures
    /\ usigReadable \in BOOLEAN
    /\ upk \in Signers
    /\ ucurrent = "current"
    /\ ureads = {}
    /\ uret = NoCall

UpgradeIdle ==
    UpgradeInit /\ ubin = 1 /\ usig = sign_with_context(1, 1, SIGNING_CONTEXT)
        /\ usigReadable /\ upk = 1

UpgradeFrame == <<ubin, usig, usigReadable, upk, payVars, hybridVars, cacheVars, migVars,
                  nodeVars, extractVars, rolloutVars>>

\* a check that takes a signature made under any context
verify_any_context(binary, signature, public_key) ==
    IF binary = 0 THEN Err("Crypto", "Failed to read binary")
    ELSE IF signature.len # SIGNATURE_SIZE THEN Err("Crypto", "Invalid signature size")
    ELSE IF ~signature.parses THEN Err("Crypto", "Invalid signature format")
    ELSE IF signature.key = public_key /\ signature.body = binary THEN Ok("()")
    ELSE Err("Crypto", "Signature verification failed: invalid signature")

\* verify_binary_signature_with_key: read, size, parse, verify with context
verify_binary_signature_with_key(binary, signature, public_key) ==
    IF binary = 0 THEN Err("Crypto", "Failed to read binary")
    ELSE IF signature.len # SIGNATURE_SIZE THEN Err("Crypto", "Invalid signature size")
    ELSE IF ~signature.parses THEN Err("Crypto", "Invalid signature format")
    ELSE IF verify_with_context(public_key, binary, signature, SIGNING_CONTEXT)
    THEN Ok("()")
    ELSE Err("Crypto", "Signature verification failed: invalid signature")

\* a check that lets everything pass while no key is embedded
verify_binary_signature_open(binary, signature) ==
    IF RELEASE_SIGNING_KEY = << >> THEN [result |-> Ok("()"), reads |-> {}]
    ELSE [result |-> Err("Crypto", "Invalid release key"), reads |-> {}]

\* verify_binary_signature: the embedded key must not be empty and must
\* parse; then as with an explicit key.  reads are the files it has read
verify_binary_signature(binary, signature) ==
    IF RELEASE_SIGNING_KEY = << >>
    THEN [result |-> Err("Crypto", "Release signing key not configured"), reads |-> {}]
    ELSE IF Len(RELEASE_SIGNING_KEY) # PUBLIC_KEY_SIZE
    THEN [result |-> Err("Crypto", "Invalid release key"), reads |-> {}]
    ELSE [result |-> verify_binary_signature_with_key(binary, signature,
                                                      RELEASE_SIGNING_KEY[1]),
          reads |-> {"binary"}]

UCall(op, result, reads) ==
    /\ uret' = [op |-> op, result |-> result]
    /\ ureads' = reads
    /\ UNCHANGED <<ucurrent, UpgradeFrame>>

\* verify_binary_signature(binary_path, signature) is called
call_verify_binary_signature ==
    LET r == verify_binary_signature(ubin, usig)
    IN  UCall("verify_binary_signature", r.result, r.reads)

\* verify_binary_signature_with_key(binary_path, signature, public_key) is called
call_verify_binary_signature_with_key ==
    UCall("verify_binary_signature_with_key",
          verify_binary_signature_with_key(ubin, usig, upk), {"binary"})

\* verify_from_file: fs::read(signature_path)?, then verify_binary_signature
call_verify_from_file ==
    IF ~usigReadable
    THEN UCall("verify_from_file", Err("Io", "read"), {"signature"})
    ELSE LET r == verify_binary_signature(ubin, usig)
         IN  UCall("verify_from_file", r.result, {"signature"} \cup r.reads)

\* verify_from_file_with_key
call_verify_from_file_with_key ==
    IF ~usigReadable
    THEN UCall("verify_from_file_with_key", Err("Io", "read"), {"signature"})
    ELSE UCall("verify_from_file_with_key",
               verify_binary_signature_with_key(ubin, usig, upk),
               {"signature", "binary"})

\* perform_upgrade: logs what it would do and returns Ok(UpgradeResult::NoUpgrade)
perform_upgrade ==
    UCall("perform_upgrade", Ok("NoUpgrade"), {})

UpgradeNext ==
    \/ call_verify_binary_signature
    \/ call_verify_binary_signature_with_key
    \/ call_verify_from_file
    \/ call_verify_from_file_with_key
    \/ perform_upgrade

(***************************************************************************)
(* upgrade/rollout.rs: the staged rollout delay.  A u64 and an f64 are     *)
(* carried as sequences of bits, least significant first, since they do    *)
(* not fit the integers of the checker; an f64 in [0, 2^33) is carried as  *)
(* its value times 2^64.                                                   *)
(***************************************************************************)
\* the first eight bytes of Sha256::new().update(node_id).finalize()
Sha256Prefix ==
    "node-1" :> <<53, 151, 27, 230, 233, 187, 2, 74>> @@
    "node-2" :> <<23, 121, 245, 159, 77, 242, 81, 246>> @@
    "node-3" :> <<168, 76, 254, 138, 134, 49, 162, 108>> @@
    "node-4" :> <<155, 198, 61, 174, 110, 86, 94, 178>> @@
    "node-5" :> <<170, 197, 203, 208, 160, 121, 111, 158>> @@
    "node-6" :> <<107, 140, 193, 84, 117, 68, 228, 79>> @@
    "node-7" :> <<195, 70, 211, 135, 154, 33, 80, 240>> @@
    "node-8" :> <<42, 88, 206, 123, 9, 9, 255, 176>> @@
    "node-9" :> <<205, 168, 5, 182, 12, 69, 3, 221>> @@
    "node-10" :> <<9, 199, 155, 88, 128, 47, 247, 10>> @@
    "node-11" :> <<205, 188, 101, 16, 81, 52, 227, 253>> @@
    "node-12" :> <<213, 74, 209, 151, 224, 216, 212, 96>> @@
    "node-13" :> <<67, 53, 212, 200, 117, 39, 84, 67>> @@
    "node-14" :> <<179, 154, 163, 43, 176, 209, 117, 225>> @@
    "node-15" :> <<8, 231, 71, 35, 255, 128, 38, 94>> @@
    "node-16" :> <<161, 129, 168, 64, 222, 192, 127, 188>> @@
    "consistent-node" :> <<75, 195, 116, 72, 219, 77, 90, 129>> @@
    "node-11831" :> <<185, 134, 27, 235, 119, 112, 7, 0>> @@
    "node-12033" :> <<101, 93, 53, 131, 108, 149, 1, 0>> @@
    "node-38072" :> <<23, 13, 64, 249, 10, 127, 6, 0>> @@
    "node-41575" :> <<143, 94, 170, 120, 254, 219, 3, 0>> @@
    "node-60278" :> <<35, 221, 89, 224, 16, 127, 4, 0>>

NodeIds == DOMAIN Sha256Prefix

\* the windows, in hours, the calculators are made with
RolloutHours == {0, 12, 24}

\* StagedRollout::new
StagedRollout(node_id, max_delay_hours) ==
    [max_delay_hours |-> max_delay_hours, node_id_hash |-> Sha256Prefix[node_id]]

\* u64::from_le_bytes: position p holds bit p - 1
from_le_bytes(bytes) ==
    [p \in 1..(8 * Len(bytes)) |-> (bytes[((p - 1) \div 8) + 1] \div 2^((p - 1) % 8)) % 2]

\* the position of the highest set bit, 0 when there is none
TopBit(bits) ==
    IF \A p \in DOMAIN bits : bits[p] = 0 THEN 0
    ELSE CHOOSE p \in DOMAIN bits :
             bits[p] = 1 /\ \A q \in DOMAIN bits : q > p => bits[q] = 0

\* rounding to the 53 significant bits of an f64, ties to even; one
\* position longer than its argument
as_f64(bits) ==
    LET k == TopBit(bits) - 53
    IN  IF k <= 0 THEN bits \o <<0>>
        ELSE LET up == /\ bits[k] = 1
                       /\ \/ \E p \in 1..(k - 1) : bits[p] = 1
                          \/ bits[k + 1] = 1
                 carry(p) == up /\ \A q \in (k + 1)..(p - 1) : bits[q] = 1
             IN  [p \in 1..(Len(bits) + 1) |->
                     IF p <= k THEN 0
                     ELSE ((IF p <= Len(bits) THEN bits[p] ELSE 0)
                              + (IF carry(p) THEN 1 ELSE 0)) % 2]

\* the bytes of a bit sequence, least significant first, and `pad` zero bytes
to_le_bytes(bits, pad) ==
    [i \in 1..(((Len(bits) + 7) \div 8) + pad) |->
        LET bit(p) == IF p <= Len(bits) THEN bits[p] ELSE 0
        IN  bit(8*i - 7) + 2 * bit(8*i - 6) + 4 * bit(8*i - 5) + 8 * bit(8*i - 4)
              + 16 * bit(8*i - 3) + 32 * bit(8*i - 2) + 64 * bit(8*i - 1)
              + 128 * bit(8*i)]

\* the exact product of a number given by its bytes and a small integer
RECURSIVE mul_bytes(_, _, _)
mul_bytes(bytes, m, carry) ==
    IF bytes = << >> THEN << >>
    ELSE LET t == Head(bytes) * m + carry
         IN  <<t % 256>> \o mul_bytes(Tail(bytes), m, t \div 256)

\* the f64 product of `fraction`, held times 2^64, and the integer m
f64_mul(fraction, m) ==
    as_f64(from_le_bytes(mul_bytes(to_le_bytes(fraction, 3), m, 0)))

\* `as u64` of a non-negative f64 held times 2^64: the part above position 64
RECURSIVE bits_above(_, _)
bits_above(bits, p) ==
    IF p > Len(bits) THEN 0 ELSE bits[p] + 2 * bits_above(bits, p + 1)

\* a delay that rounds the product to the nearest second
calculate_delay_rounded(self) ==
    IF self.max_delay_hours = 0 THEN 0
    ELSE LET product == f64_mul(as_f64(from_le_bytes(self.node_id_hash)),
                                self.max_delay_hours * 3600)
         IN  bits_above(product, 65) + product[64]

\* StagedRollout::calculate_delay, in seconds: (hash_value as f64) over
\* (u64::MAX as f64), which is 2^64, times max_delay_secs as f64, as u64
calculate_delay(self) ==
    IF self.max_delay_hours = 0 THEN 0
    ELSE LET hash_value == from_le_bytes(self.node_id_hash)
             max_delay_secs == self.max_delay_hours * 3600
             delay_fraction == as_f64(hash_value)
         IN  bits_above(f64_mul(delay_fraction, max_delay_secs), 65)

NotCalculated == -1

RolloutInit ==
    /\ rnode \in NodeIds
    /\ rdelays = [h \in RolloutHours |-> NotCalculated]

RolloutIdle == RolloutInit /\ rnode = "node-1"

\* StagedRollout::new(rnode, hours).calculate_delay().as_secs()
call_calculate_delay ==
    \E hours \in RolloutHours :
        /\ rdelays[hours] = NotCalculated
        /\ rdelays' = [rdelays EXCEPT ![hours] = calculate_delay(StagedRollout(rnode, hours))]
        /\ UNCHANGED <<rnode, payVars, hybridVars, cacheVars, migVars, nodeVars, extractVars,
                       upgradeVars>>

RolloutNext ==
    \/ call_calculate_delay

RestIdle == CacheIdle /\ MigIdle /\ NodeIdle /\ ExtractIdle /\ UpgradeIdle /\ RolloutIdle

\* the payment verifier in use, the hybrid client idle
PayStart == PayInit /\ HybridIdle /\ RestIdle

SpecPay == PayStart /\ [][PayNext]_vars

\* the hybrid client in use, the payment verifier idle
HybridStart == HybridInit /\ PayIdle /\ RestIdle

SpecHybrid == HybridStart /\ [][HybridNext]_vars

\* a hybrid client attached to a node, its legacy network not connected
ClientStart ==
    HybridInit /\ PayIdle /\ RestIdle /\ p2pNode /\ ~legacyConnected /\ ~autoMigrate

SpecClient == ClientStart /\ [][ClientNext]_vars

\* a hybrid client of any configuration, whose callers also use lookup
SpecCaller == HybridStart /\ [][CallerNext]_vars

\* a VerifiedCache of any capacity, used directly
CacheStart ==
    /\ PayInit /\ evmEnabled /\ HybridIdle /\ CacheInit /\ MigIdle /\ NodeIdle
    /\ ExtractIdle /\ UpgradeIdle /\ RolloutIdle

SpecCache == CacheStart /\ [][CacheNext]_vars

\* a migrator over any ant-node data directory
MigrateStart ==
    /\ MigInit /\ PayIdle /\ HybridIdle /\ CacheIdle /\ NodeIdle /\ ExtractIdle
    /\ UpgradeIdle /\ RolloutIdle

SpecMigrate == MigrateStart /\ [][MigrateNext]_vars

\* a node built with or without a migrator and an upgrade monitor; the
\* migrator build makes has no master key
NodeStart ==
    /\ NodeInit
    /\ MigInit
    /\ ~masterKey
    /\ ~hasMigrator => (~recordStore /\ dirEntries = << >>)
    /\ PayIdle
    /\ HybridIdle
    /\ CacheIdle
    /\ ExtractIdle
    /\ UpgradeIdle /\ RolloutIdle

\* one record file under directories of any name
ExtractStart ==
    /\ ExtractInit /\ PayIdle /\ HybridIdle /\ CacheIdle /\ NodeIdle
    /\ UpgradeIdle /\ RolloutIdle

SpecExtract == ExtractStart /\ [][ExtractNext]_vars

\* the signature checks and perform_upgrade on any binary, signature and key
UpgradeStart ==
    /\ UpgradeInit
    /\ PayIdle /\ HybridIdle /\ CacheIdle /\ MigIdle /\ NodeIdle /\ ExtractIdle
    /\ RolloutIdle

SpecUpgrade == UpgradeStart /\ [][UpgradeNext]_vars

\* the rollout delay of any listed node id under each window
RolloutStart ==
    /\ RolloutInit
    /\ PayIdle /\ HybridIdle /\ CacheIdle /\ MigIdle /\ NodeIdle /\ ExtractIdle
    /\ UpgradeIdle

SpecRollout == RolloutStart /\ [][RolloutNext]_vars

SpecNode == NodeStart /\ [][NodeNext]_vars

\* what run does by itself once it is called: the runtime keeps polling the
\* future, and each of these steps is ready when it is enabled
RunStep ==
    \/ run_started
    \/ run_migrate
    \/ run_migrate_record
    \/ run_migrate_return
    \/ run_migrated
    \/ run_spawn
    \/ run_changed
    \/ run_return

\* the node with run called and polled to completion; ctrl_c and the
\* monitor task's timer are under no obligation
SpecNodeFair == SpecNode /\ WF_vars(RunStep)

(***************************************************************************)
(* Properties of the payment verifier.                                     *)
(***************************************************************************)
Finished(p) == vpc[p] = "done"
Missed(p) == vtrace[p] # << >> /\ vtrace[p][1] = "cache_miss"
NoProof(p) == ~vproof[p].some \/ vproof[p].bytes = << >>
Storable(r) == r = Ok("CachedAsVerified") \/ r = Ok("PaymentVerified")
Has(t, e) == \E i \in 1..Len(t) : t[i] = e

\* C1: a call for a xorname the cache probe missed, made with no proof or
\* with an empty one, returns Err(Payment), with "Payment required" when
\* the proof is None; a call that missed the cache and returned a storable
\* status was given a non-empty proof.
C1_NoProofNoStore ==
    \A p \in VProcs :
        (Finished(p) /\ Missed(p)) =>
            /\ NoProof(p) =>
                  /\ ~vresult[p].ok
                  /\ vresult[p].kind = "Payment"
                  /\ ~vproof[p].some => vresult[p].val = "Payment required for new data"
            /\ vresult[p].ok => ~NoProof(p)

C1_Witness ==
    \E p, q \in VProcs :
        /\ Finished(p) /\ Missed(p) /\ ~vproof[p].some
        /\ vresult[p] = Err("Payment", "Payment required for new data")
        /\ Finished(q) /\ Missed(q) /\ vproof[q] = Some(<< >>)
        /\ vresult[q] = Err("Payment", "Empty payment proof")

\* the step in which process p starts verify_payment(cid, None) right after
\* a call for the same cid returned PaymentVerified
FollowsVerified(p) ==
    /\ lastStep.kind = "verified"
    /\ vpc[p] \in {"idle", "done", "cancelled"}
    /\ vpc'[p] \in {"found", "not_found"}
    /\ vcid'[p] = vcid[lastStep.proc]
    /\ vproof'[p] = None

\* the step in which process p, its payment verified, puts its xorname in the cache
Inserts(p) ==
    /\ vpc[p] \in {"required", "rpc"}
    /\ vpc'[p] = "inserted"

\* the step in which process p returns PaymentVerified
ReturnsVerified(p) ==
    /\ vpc[p] = "inserted"
    /\ vpc'[p] = "done"
    /\ vresult'[p] = Ok("PaymentVerified")

\* the follow-up call finds the xorname
FoundByFollowUp ==
    \A p \in VProcs : FollowsVerified(p) => vpc'[p] = "found"

\* a call that found its xorname returns CachedAsVerified at its next step,
\* having looked at no proof and made no call to the chain
FoundIsCached ==
    \A p \in VProcs :
        (vpc[p] = "found" /\ vpc'[p] # "found") =>
            /\ vpc'[p] = "done"
            /\ vresult'[p] = Ok("CachedAsVerified")
            /\ vtrace'[p] = <<"cache_hit">>

\* C2 as stated: the follow-up call is answered from the cache alone, the
\* cache holds the cid once, and cache_len grows by 1 for a new cid.
C2_Original ==
    [][/\ FoundByFollowUp
       /\ FoundIsCached
       /\ \A p \in VProcs :
             /\ ReturnsVerified(p) => Count(lru', vcid[p]) = 1
             /\ (Inserts(p) /\ vcid[p] \notin Range(lru)) => Len(lru') = Len(lru) + 1]_vars

\* C2 amended: the call that returns PaymentVerified has put its cid in the
\* cache, once and in the most recent place; cache_len grows by 1 for a new
\* cid while the cache is below its capacity and stays at the capacity when
\* it is full; a cached cid leaves the cache only when the insert of another
\* call evicts it as the least recently used one; and the follow-up call, when
\* the cid has not been evicted so, is answered from the cache alone
C2_CachedAfterVerified ==
    [][/\ \A p \in VProcs :
             /\ (FollowsVerified(p) /\ vcid'[p] \in Range(lru)) => vpc'[p] = "found"
             /\ Inserts(p) =>
                   /\ Count(lru', vcid[p]) = 1
                   /\ lru'[1] = vcid[p]
                   /\ vcid[p] \notin Range(lru) =>
                         Len(lru') = IF Len(lru) < with_capacity(capacity)
                                     THEN Len(lru) + 1
                                     ELSE with_capacity(capacity)
             /\ vpc'[p] = "inserted" => (Inserts(p) \/ vpc[p] = "inserted")
             /\ vpc[p] = "inserted" => (vpc'[p] = "inserted" \/ ReturnsVerified(p))
       /\ FoundIsCached
       /\ \A c \in Range(lru) \ Range(lru') :
             /\ c = lru[Len(lru)]
             /\ Len(lru) = with_capacity(capacity)
             /\ \E q \in VProcs : Inserts(q) /\ vcid[q] # c]_vars

C2_Witness ==
    \E p \in VProcs :
        /\ Finished(p)
        /\ vresult[p] = Ok("CachedAsVerified")
        /\ vtrace[p] = <<"cache_hit">>
        /\ vproof[p] = None
        /\ vcid[p] \in verified
        /\ cacheStats.additions = 1
        /\ cacheStats.hits = 1

\* C3: a step in which a call returns an error leaves the cached set as it
\* was, and the cached set changes only in a step in which a call whose
\* verification succeeded puts its xorname, the step that is followed by
\* that call's return of PaymentVerified.
C3_ErrorsLeaveCache ==
    [][/\ \A p \in VProcs :
             /\ (vresult'[p] # vresult[p] /\ ~vresult'[p].ok /\ vresult'[p] # NoResult) =>
                   Range(lru') = Range(lru)
             /\ vpc[p] = "inserted" => (vpc'[p] = "inserted" \/ ReturnsVerified(p))
       /\ Range(lru') # Range(lru) =>
             \E p \in VProcs :
                 /\ Inserts(p)
                 /\ vcid[p] \in verified'
                 /\ Range(lru') \ Range(lru) = {vcid[p]}]_vars

C3_Witness ==
    \E p, q \in VProcs :
        /\ Finished(p) /\ vresult[p] = Err("Payment", "EVM verification error")
        /\ vcid[p] \notin Range(lru)
        /\ Finished(q) /\ vresult[q] = Ok("PaymentVerified")
        /\ vcid[q] \in Range(lru)

\* C4: dropping a future suspended on the verification RPC leaves the cache
\* as it was, and every cached xorname is one for which some verification
\* returned Ok(()).
C4_CancelSafe ==
    /\ [][(\E p \in VProcs : vpc[p] = "rpc" /\ vpc'[p] = "cancelled") => lru' = lru]_vars
    /\ [](Range(lru) \subseteq verified)

C4_Witness ==
    \E p, q \in VProcs :
        /\ vpc[p] = "cancelled"
        /\ vcid[p] \notin Range(lru)
        /\ Finished(q) /\ vresult[q] = Ok("PaymentVerified")
        /\ vcid[q] \in Range(lru)

BadQuotes(p) ==
    /\ vproof[p].some
    /\ from_slice(vproof[p].bytes).ok
    /\ \/ from_slice(vproof[p].bytes).peer_quotes = << >>
       \/ FirstBadQuote(from_slice(vproof[p].bytes).peer_quotes) # 0

\* C5 as stated: a proof with no quotes or with a quote not signed by its
\* claimed peer fails with Payment and is not cached by that call, whether
\* EVM verification is enabled or disabled.
C5_Original ==
    \A p \in VProcs :
        (Finished(p) /\ Missed(p) /\ BadQuotes(p)) =>
            /\ ~vresult[p].ok
            /\ vresult[p].kind = "Payment"
            /\ ~Has(vtrace[p], "insert")

\* C5 amended: with EVM verification enabled the signatures are checked and
\* an empty quote list is rejected before the on-chain call, so such a proof
\* fails with Payment, is not cached and never reaches the RPC; with EVM
\* verification disabled the shortcut comes first and every proof that
\* deserializes is accepted and cached without any quote being checked.
C5_ChecksOnlyWhenEnabled ==
    \A p \in VProcs :
        /\ (evmEnabled /\ Missed(p) /\ BadQuotes(p) /\ vpc[p] # "required") =>
              /\ Finished(p)
              /\ ~vresult[p].ok
              /\ vresult[p].kind = "Payment"
              /\ ~Has(vtrace[p], "insert")
              /\ ~Has(vtrace[p], "rpc")
        /\ (evmEnabled /\ Has(vtrace[p], "rpc")) =>
              vtrace[p][2] = "deserialize" /\ vtrace[p][3] = "signatures"
                 /\ vtrace[p][4] = "digest" /\ vtrace[p][5] = "rpc"
        /\ (~evmEnabled /\ Missed(p) /\ vproof[p].some /\ from_slice(vproof[p].bytes).ok
               /\ vpc[p] # "required") =>
              /\ vpc[p] \in {"inserted", "done"}
              /\ Finished(p) => vresult[p] = Ok("PaymentVerified")
              /\ vtrace[p] = <<"cache_miss", "deserialize", "evm_disabled", "insert">>

C5_Witness ==
    \E p, q \in VProcs :
        /\ evmEnabled
        /\ Finished(p) /\ Missed(p) /\ vproof[p] = Some(<<0>>)
        /\ vresult[p] = Err("Payment", "Payment has no quotes")
        /\ Finished(q) /\ Missed(q) /\ vproof[q] = Some(<<2, 1, 2>>)
        /\ vresult[q] = Err("Payment", "Quote signature invalid for peer")

C5_WitnessDisabled ==
    \E p \in VProcs :
        /\ ~evmEnabled
        /\ Finished(p) /\ Missed(p) /\ vproof[p] = Some(<<0>>)
        /\ vresult[p] = Ok("PaymentVerified")

(***************************************************************************)
(* Hybrid client: claims C6 to C10, on SpecHybrid.                         *)
(***************************************************************************)
LegacyFailures == {"QueryError", "Timeout"}
LegacyEvents == LegacyOutcomeNames \cup {"Unsupported"}
ReadReturned == hreturned.op \in Kinds
PrimaryFailed == ReadReturned /\ hreturned.trace[1] = "primary_err"

\* C6: a typed read (chunk, scratchpad, pointer, graph entry) whose
\* primary probe fails, the absent P2P node included, never returns at that
\* failure: like a primary miss it changes nothing, queries the legacy
\* client next, and its value is the one the legacy path produces
C6_PrimaryErrorIsMiss ==
    /\ [](PrimaryFailed =>
            /\ Len(hreturned.trace) >= 2
            /\ hreturned.trace[2] \in LegacyEvents
            /\ hreturned.op # "chunk" =>
                    /\ hreturned.trace = <<"primary_err", "Unsupported", "misses">>
                    /\ hreturned.result = HOk("None", NoChunk)
            /\ hreturned.result.ok =>
                    \/ hreturned.result.val = "None"
                    \/ hreturned.result.chunk.source = "Autonomi")
    /\ [][\A p \in HProcs :
            (hpc[p] = "idle" /\ hpc'[p] # "idle" /\ hop'[p] \in Kinds) =>
                /\ hpc'[p] = "legacy"
                /\ htrace'[p] \in {<<"primary_err">>, <<"primary_none">>}
                /\ stats' = stats
                /\ dht' = dht
                /\ hreturned' = hreturned]_vars

C6_Witness ==
    /\ ~p2pNode
    /\ PrimaryFailed
    /\ hreturned.trace = <<"primary_err", "Found", "autonomi_hits">>
    /\ hreturned.result = HOk("Some", wrap_autonomi_chunk(hreturned.key, legacyNet[hreturned.key].bytes))

\* C7: whenever the legacy client returns Some(chunk) in the get_chunk
\* fallback, the call returns that chunk with source Autonomi and counts an
\* autonomi hit; with auto_migrate it has put the content on the primary
\* once and counted a migration, without auto_migrate it has not written
C7_LegacyHitReturned ==
    (hreturned.op = "chunk" /\ Len(hreturned.trace) >= 2 /\ hreturned.trace[2] = "Found") =>
        /\ hreturned.result =
                HOk("Some", wrap_autonomi_chunk(hreturned.key, legacyNet[hreturned.key].bytes))
        /\ hreturned.trace[3] = "autonomi_hits"
        /\ IF autoMigrate
           THEN SubSeq(hreturned.trace, 4, Len(hreturned.trace)) = <<"migrate_ok", "migrations">>
           ELSE Len(hreturned.trace) = 3

LegacyFailed ==
    /\ hreturned.op \in {"chunk", "exists"}
    /\ Len(hreturned.trace) >= 2
    /\ hreturned.trace[2] \in LegacyFailures

\* C8 as stated: after a primary miss or failure and a failed legacy
\* query, get_chunk returns Ok(None) and exists returns a Network error
C8_Original ==
    LegacyFailed =>
        IF hreturned.op = "chunk"
        THEN hreturned.result = HOk("None", NoChunk)
        ELSE ~hreturned.result.ok /\ hreturned.result.kind = "Network"

\* C8: after a primary miss or failure and a failed legacy query, get_chunk
\* and exists both return the legacy client's Network error, and no counter
\* is changed for the call
C8_LegacyErrorPropagates ==
    LegacyFailed =>
        /\ Len(hreturned.trace) = 2
        /\ ~hreturned.result.ok
        /\ hreturned.result.kind = "Network"
        /\ hreturned.result.val =
                IF hreturned.trace[2] = "Timeout"
                THEN "Autonomi query timed out" ELSE "Autonomi query failed"

C8_Witness ==
    /\ LegacyFailed
    /\ hreturned.op = "chunk"
    /\ hreturned.trace = <<"primary_none", "QueryError">>
    /\ hreturned.result = HErr("Network", "Autonomi query failed")

C8_WitnessExists ==
    /\ LegacyFailed
    /\ hreturned.op = "exists"
    /\ hreturned.result = HErr("Network", "Autonomi query timed out")

StatsEvents == {"saorsa_hits", "autonomi_hits", "misses", "migrations", "saorsa_writes"}

\* C9 as stated: a read that has reached its optional re-publish has not
\* yet changed any stats counter
C9_Original ==
    \A p \in HProcs : hpc[p] = "migrate" => ~\E i \in 1..Len(htrace[p]) : htrace[p][i] \in StatsEvents

\* C9: a read probes the primary first and the legacy client second; a
\* legacy hit is counted in autonomi_hits before the re-publish starts, and
\* migrations is counted only when the re-publish has stored the content
C9_ProbeOrder ==
    [][\A p \in HProcs :
        /\ (hpc'[p] = "legacy" /\ hpc[p] # "legacy") =>
                /\ hpc[p] = "idle"
                /\ htrace'[p] \in {<<"primary_err">>, <<"primary_none">>}
                /\ stats' = stats
        /\ (hpc'[p] = "migrate" /\ hpc[p] # "migrate") =>
                /\ hpc[p] = "legacy"
                /\ htrace[p] \in {<<"primary_err">>, <<"primary_none">>}
                /\ stats' = [stats EXCEPT !.autonomi_hits = @ + 1]
                /\ dht' = dht
        /\ (hpc[p] = "migrate" /\ hpc'[p] # "migrate") =>
                /\ htrace[p][Len(htrace[p])] = "autonomi_hits"
                /\ stats' = stats
                /\ \/ hpc'[p] = "idle" /\ dht' = dht /\ ~hreturned'.result.ok
                   \/ /\ hpc'[p] = "migrated"
                      /\ dht'[Sha256(hchunk[p].content)] = Some(hchunk[p].content)
        /\ (hpc[p] = "migrated" /\ hpc'[p] # "migrated") =>
                /\ htrace[p][Len(htrace[p])] = "migrate_ok"
                /\ dht[Sha256(hchunk[p].content)] = Some(hchunk[p].content)
                /\ stats' = [stats EXCEPT !.migrations = @ + 1]
                /\ hreturned'.result.ok
        /\ stats'.migrations > stats.migrations =>
                \E q \in HProcs : hpc[q] = "migrated" /\ hpc'[q] = "idle"]_vars

C9_Witness ==
    /\ hreturned.op = "chunk"
    /\ hreturned.trace = <<"primary_none", "Found", "autonomi_hits", "migrate_ok", "migrations">>
    /\ stats.autonomi_hits = 1
    /\ stats.migrations = 1

\* C10: migrations never exceeds autonomi_hits, in every reachable state and
\* whatever the interleaving of concurrent reads and reset_stats
C10_MigrationsWithinHits == stats.migrations <= stats.autonomi_hits

(***************************************************************************)
(* Properties of the counters, the typed writes and lookup.                *)
(***************************************************************************)
HitEvents == {"saorsa_hits", "autonomi_hits", "misses"}
HitSum(st) == st.saorsa_hits + st.autonomi_hits + st.misses
HitCount(t) == Cardinality({i \in 1..Len(t) : t[i] \in HitEvents})

\* the typed gets a future has made and has not yet counted
GetsOf(op) == IF op = "lookup" THEN 2 ELSE 1

\* C11: after any sequence of reads, lookups, writes, probes and resets the
\* sum of saorsa_hits, autonomi_hits and misses is at most the number of typed
\* gets made, a lookup counting as the gets it performs; every step raises at
\* most one of the three counters, by exactly one, and a call counts at most
\* once for each typed get it made.
C11_CountedOncePerGet ==
    /\ [](HitSum(stats) <= gets)
    /\ [](hreturned.op \in Kinds \cup {"lookup"}
            => HitCount(hreturned.trace) <= GetsOf(hreturned.op))
    /\ [](\A p \in HProcs : HitCount(htrace[p]) <= 1)
    /\ [][\/ \A g \in HitEvents : stats'[g] = stats[g]
          \/ stats' = ZeroStats
          \/ \E f \in HitEvents :
                /\ stats'[f] = stats[f] + 1
                /\ \A g \in HitEvents \ {f} : stats'[g] = stats[g]]_vars

\* a lookup that found nothing made two typed gets and counted two misses
C11_Witness ==
    /\ hreturned.op = "lookup"
    /\ hreturned.result.val = "NotFound"
    /\ gets = 2
    /\ stats.misses = 2
    /\ HitSum(stats) = 2

\* the counter of the record the primary network holds for an owner
StoredCounter(store, kind, owner) ==
    entry_counter(kind, store[derive_address(kind, owner)].bytes)

\* C12: for every owner, across put_scratchpad and put_pointer calls the
\* counter of the stored record never decreases: a write whose counter is
\* at most the stored one leaves the stored record as it was.
C12_CounterNeverDecreases ==
    [][\A kind \in {"scratchpad", "pointer"}, owner \in Owners :
            dht[derive_address(kind, owner)].some
                => /\ dht'[derive_address(kind, owner)].some
                   /\ \/ dht'[derive_address(kind, owner)] = dht[derive_address(kind, owner)]
                      \/ StoredCounter(dht', kind, owner) > StoredCounter(dht, kind, owner)]_vars

\* C13: put_chunk(b) returns SHA-256(b) and leaves b stored there, so that
\* storing b again returns the same address; a get_chunk that the primary
\* network answers returns the requested address, the content stored there
\* and the source Saorsa, and the primary reports nothing only where nothing
\* is stored.
C13_PutThenGet ==
    /\ [](hreturned.op = "put_chunk" /\ hreturned.result.ok
            => /\ hreturned.result.val = "Address"
               /\ hreturned.result.chunk.address = Sha256(hreturned.result.chunk.content)
               /\ dht[hreturned.result.chunk.address]
                    = Some(hreturned.result.chunk.content))
    /\ [](\A b \in Contents : dht[Sha256(b)].some => dht[Sha256(b)].bytes = b)
    /\ [](hreturned.op = "chunk" /\ hreturned.trace[1] = "primary_some"
            => /\ dht[hreturned.key].some
               /\ hreturned.result
                    = HOk("Some", DataChunk(hreturned.key, dht[hreturned.key].bytes, "Saorsa")))
    /\ [][\A p \in HProcs :
            hpc[p] = "idle" /\ hpc'[p] = "legacy" /\ htrace'[p] = <<"primary_none">>
                => ~dht[hkey'[p]].some]_vars

\* content 1 was stored by put_chunk, and a get_chunk of its hash returned it
C13_Witness ==
    /\ hreturned = Returned("chunk", Sha256(<<1>>),
                            HOk("Some", DataChunk(Sha256(<<1>>), <<1>>, "Saorsa")),
                            <<"primary_some", "saorsa_hits">>)
    /\ stats.saorsa_writes = 1
    /\ stats.saorsa_hits = 1
    /\ stats.migrations = 0

\* a get_chunk returned Ok(Some(chunk))
ChunkReturned ==
    /\ hreturned.op = "chunk"
    /\ hreturned.result.ok
    /\ hreturned.result.val = "Some"

\* C14: every DataChunk a get_chunk returns has address = SHA-256(content),
\* whatever address was requested and whatever the networks hold there.
C14_AddressIsHash ==
    ChunkReturned
        => hreturned.result.chunk.address = Sha256(hreturned.result.chunk.content)

\* C15: graph entries are immutable: a put_graph_entry that resolves to an
\* address where an entry is stored leaves the stored entry, the one
\* get_graph_entry returns, as it was.
C15_GraphEntriesImmutable ==
    [][\A a \in GraphAddrs : dht[a].some => dht'[a] = dht[a]]_vars

\* no probe of the returned call failed
NoProbeFailed == \A i \in 1..Len(hreturned.trace) : hreturned.trace[i] # "primary_err"

\* C16: lookup(a) returns a result tagged with the kind of record stored at
\* a: Chunk for a chunk, GraphEntry for an entry stored by put_graph_entry,
\* NotFound when nothing is stored at a.
C16_LookupTagsKind ==
    (hreturned.op = "lookup" /\ hreturned.result.ok /\ NoProbeFailed)
        => hreturned.result.val =
                IF ~dht[hreturned.key].some THEN "NotFound"
                ELSE IF from_slice_entry("graph", dht[hreturned.key].bytes)
                THEN "GraphEntry"
                ELSE "Chunk"

\* C17: exists probes the primary first and the legacy network second: it
\* returns Some(Saorsa), without a legacy probe, when the primary holds data
\* at the address; otherwise, a primary error counting as absent, it returns
\* Some(Autonomi) when the legacy probe finds the chunk and None when the
\* legacy probe finds nothing.
C17_ExistsProbeOrder ==
    /\ [](hreturned.op = "exists"
            => IF hreturned.trace[1] = "primary_true"
               THEN /\ hreturned.trace = <<"primary_true">>
                    /\ hreturned.result = HOk("Saorsa", NoChunk)
                    /\ dht[hreturned.key].some
               ELSE /\ hreturned.trace[1] \in {"primary_false", "primary_err"}
                    /\ Len(hreturned.trace) = 2
                    /\ hreturned.trace[2] \in LegacyOutcomes(hreturned.key)
                    /\ hreturned.trace[2] = "Found"
                            => hreturned.result = HOk("Autonomi", NoChunk)
                    /\ hreturned.trace[2] \in {"RecordNotFound", "NotConnected"}
                            => hreturned.result = HOk("None", NoChunk))
    /\ [][\A p \in HProcs :
            hpc[p] = "idle" /\ hpc'[p] = "ex_legacy"
                => IF dht[hkey'[p]].some
                   THEN htrace'[p] = <<"primary_err">>
                   ELSE htrace'[p] \in {<<"primary_false">>, <<"primary_err">>}]_vars

\* the primary probe failed and the legacy probe found the chunk
C17_Witness ==
    hreturned = Returned("exists", 2, HOk("Autonomi", NoChunk), <<"primary_err", "Found">>)

\* a typed read returned Ok(None)
ReadMissed == hreturned.op \in Kinds /\ hreturned.result = HOk("None", NoChunk)

\* C18: a typed read that finds the record on neither network returns
\* Ok(None), increments misses by exactly one and changes no other counter;
\* with no DHT handle and no legacy peers every get_chunk returns None, and
\* the first one leaves misses = 1.
C18_MissCountsOnce ==
    /\ [](hreturned.op \in Kinds
            /\ Len(hreturned.trace) >= 2
            /\ hreturned.trace[1] \in {"primary_none", "primary_err"}
            /\ hreturned.trace[2] \in {"RecordNotFound", "NotConnected", "Unsupported"}
            => /\ hreturned.result = HOk("None", NoChunk)
               /\ hreturned.trace[3] = "misses"
               /\ Len(hreturned.trace) = 3)
    /\ [](ReadMissed => {i \in 1..Len(hreturned.trace) : hreturned.trace[i] \in StatsEvents}
                            = {Len(hreturned.trace)})
    /\ [][\A p \in HProcs :
            /\ (hpc[p] = "idle" /\ hpc'[p] = "legacy") => stats' = stats
            /\ (hpc[p] # hpc'[p] /\ hpc'[p] = "idle" /\ hreturned'.op \in Kinds
                    /\ hreturned'.result = HOk("None", NoChunk))
                => stats' = [stats EXCEPT !.misses = @ + 1]]_vars
    /\ [][(hcalls' = hcalls + 1 /\ hreturned' # hreturned /\ ReadMissed')
            => stats' = [stats EXCEPT !.misses = @ + 1]]_vars
    /\ [](~p2pNode /\ ~legacyConnected /\ hreturned.op = "chunk" => ReadMissed)
    /\ [][(~p2pNode /\ ~legacyConnected /\ hcalls = 1 /\ stats = ZeroStats
                /\ hreturned'.op = "chunk" /\ hreturned.op = "none")
            => stats' = [ZeroStats EXCEPT !.misses = 1]]_vars

\* the single get_chunk of a client with no DHT handle and no legacy peers
C18_Witness ==
    /\ ~p2pNode
    /\ ~legacyConnected
    /\ hcalls = 1
    /\ hreturned = Returned("chunk", 0, HOk("None", NoChunk),
                            <<"primary_err", "NotConnected", "misses">>)
    /\ stats = [ZeroStats EXCEPT !.misses = 1]

CounterNames == {"saorsa_hits", "autonomi_hits", "cache_hits", "misses", "saorsa_writes",
                 "migrations"}

\* C19: reset_stats zeroes all counters in one step: a step that lowers a
\* counter leaves every counter zero, a stats() snapshot is the counters of
\* one state, and so shows all of a reset or none of it, and is all zeros
\* when taken right after a reset.
C19_ResetIsAtomic ==
    /\ [][(\E f \in CounterNames : stats'[f] < stats[f]) => stats' = ZeroStats]_vars
    /\ [][(hreturned'.op = "stats" /\ hreturned' # hreturned)
            => hreturned'.result = stats /\ stats' = stats]_vars
    /\ [][(stats = ZeroStats /\ hreturned'.op = "stats" /\ hreturned' # hreturned)
            => hreturned'.result = ZeroStats]_vars

\* a read was counted, the counters were reset, and a snapshot taken with
\* nothing in flight is all zeros
C19_Witness ==
    /\ hreturned = Returned("stats", 0, ZeroStats, << >>)
    /\ stats = ZeroStats
    /\ gets = 1
    /\ \A p \in HProcs : hpc[p] = "idle"

\* C20: the primary network never holds a chunk or a scratchpad payload of
\* more than 4 MiB, nor a graph entry whose content is more than 100 KiB:
\* an oversized write stores nothing.
C20_SizeCeilings ==
    /\ \A a \in Addrs : dht[a].some => ByteLen(dht[a].bytes) <= MAX_CHUNK_SIZE
    /\ \A owner \in Owners :
            dht[derive_address("scratchpad", owner)].some
                => ByteLen(entry_payload(dht[derive_address("scratchpad", owner)].bytes))
                        <= MAX_SCRATCHPAD_SIZE
    /\ \A a \in GraphAddrs :
            dht[a].some => ByteLen(entry_content(dht[a].bytes)) <= MAX_GRAPH_ENTRY_SIZE

(***************************************************************************)
(* Properties of the VerifiedCache.                                        *)
(***************************************************************************)
\* a reference LRU: for each xorname the position in the history of its
\* last use, 0 when it is not cached
RefPresent(u) == {k \in DOMAIN u : u[k] # 0}
RefVictim(u) == CHOOSE k \in RefPresent(u) : \A j \in RefPresent(u) : u[k] <= u[j]
RefCap == IF capacity > 1 THEN capacity ELSE 1
RefStep(u, call, now) ==
    IF call[1] = "clear" THEN [k \in DOMAIN u |-> 0]
    ELSE IF u[call[2]] # 0 THEN [u EXCEPT ![call[2]] = now]
    ELSE IF call[1] = "contains" THEN u
    ELSE IF Cardinality(RefPresent(u)) >= RefCap
         THEN [u EXCEPT ![RefVictim(u)] = 0, ![call[2]] = now]
    ELSE [u EXCEPT ![call[2]] = now]

RECURSIVE RefReplay(_)
RefReplay(h) ==
    IF h = << >> THEN [k \in CacheKeys |-> 0]
    ELSE RefStep(RefReplay(SubSeq(h, 1, Len(h) - 1)), h[Len(h)], Len(h))

\* C21: after every sequence of insert, contains and clear the cached set is
\* that of a reference LRU of the same capacity; an insert of an absent key
\* into a full cache evicts exactly the least recently used entry, where
\* insert and a contains hit count as use, and any other insert evicts nothing
C21_EvictsLeastRecentlyUsed ==
    /\ [](Range(lru) = RefPresent(RefReplay(history)))
    /\ [][\A x \in CacheKeys :
            history' = Append(history, <<"insert", x>>) =>
                LET gone == Range(lru) \ Range(lru')
                IN  /\ x \in Range(lru')
                    /\ IF x \notin Range(lru) /\ Len(lru) >= RefCap
                       THEN gone = {RefVictim(RefReplay(history))}
                       ELSE gone = {}]_vars

\* a full cache of two, whose older entry was used by contains, has evicted
\* the newer one
C21_Witness ==
    /\ capacity = 2
    /\ history = <<<<"insert", 1>>, <<"insert", 2>>, <<"contains", 1>>, <<"insert", 3>>>>
    /\ Range(lru) = {1, 3}

\* what a cache of one entry holds after the calls of h: the key of the last
\* insert, unless a clear came after it
RECURSIVE MostRecent(_)
MostRecent(h) ==
    IF h = << >> THEN << >>
    ELSE LET call == h[Len(h)]
         IN  IF call[1] = "insert" THEN <<call[2]>>
             ELSE IF call[1] = "clear" THEN << >>
             ELSE MostRecent(SubSeq(h, 1, Len(h) - 1))

\* C22: len() never exceeds max(1, n) for a cache built by with_capacity(n);
\* a cache of capacity 0 behaves as one of capacity 1 and holds exactly the
\* most recently inserted xorname
C22_CapacityFloor ==
    /\ len <= RefCap
    /\ capacity = 0 => lru = MostRecent(history)

\* a cache of capacity 0 after two inserts of different xornames
C22_Witness ==
    /\ capacity = 0
    /\ history = <<<<"insert", 1>>, <<"insert", 2>>>>
    /\ len = 1

\* the calls of one kind that have had their effect on the LRU
CallsOf(h, op) == Cardinality({i \in DOMAIN h : h[i][1] = op})

\* C23: the LRU and the counters change together under one lock: whatever
\* len() and contains() can show of an insert or a contains, stats() taken at
\* the same moment already counts it
C23_OneLock ==
    /\ cache_stats.additions = CallsOf(history, "insert")
    /\ cache_stats.hits + cache_stats.misses = CallsOf(history, "contains")
    /\ len > 0 => cache_stats.additions > 0

(***************************************************************************)
(* Properties of the migrator.                                             *)
(***************************************************************************)
\* the record files under record_store
RecordFiles ==
    IF recordStore THEN {i \in DOMAIN dirEntries : dirEntries[i] \in RecordKinds} ELSE {}

MigrateOk == mgpc = "returned" /\ mresult.ok

\* C24: when migrate returns Ok(stats), migrated + failed + skipped is the
\* number of record files found, and all three are zero when there is no
\* record_store directory or no matching file under it
C24_CountsAddUp ==
    MigrateOk =>
        /\ mresult.val.migrated + mresult.val.failed + mresult.val.skipped
               = Cardinality(RecordFiles)
        /\ RecordFiles = {} => mresult.val = ZeroMigrationStats

\* a migration that returned with one record of each outcome
C24_Witness ==
    /\ MigrateOk
    /\ mresult.val = [migrated |-> 1, failed |-> 1, skipped |-> 1]

\* the scan met no directory it could not read
ScanOk == find_record_files.ok

Unreadable == {i \in RecordFiles : dirEntries[i] = "unreadable"}

\* C25: a record that cannot be read adds exactly one to failed and does not
\* end the walk: the records after it are processed and migrate returns Ok
C25_FailureDoesNotAbort ==
    /\ []((mgpc = "returned" /\ ScanOk) =>
            /\ mresult.ok
            /\ Range(processed) = RecordFiles
            /\ mresult.val.failed = Cardinality(Unreadable))
    /\ [][(/\ mgpc = "loop"
           /\ midx' = midx + 1
           /\ dirEntries[record_paths[midx + 1]] = "unreadable") =>
              /\ mstats' = [mstats EXCEPT !.failed = @ + 1]
              /\ mgpc' = "loop"]_vars

\* a migration that returned Ok after a record that could not be read and a
\* later one that was migrated
C25_Witness ==
    /\ MigrateOk
    /\ \E i, j \in DOMAIN processed :
           /\ i < j
           /\ dirEntries[processed[i]] = "unreadable"
           /\ dirEntries[processed[j]] = "data"
    /\ mresult.val.failed = 1
    /\ mresult.val.migrated = 1

\* C26: a record is counted in migrated only by a step that hands its
\* payload to a put of the primary client, that is, with a write to the
\* primary network
C26_MigratedMeansWritten ==
    [][mstats'.migrated > mstats.migrated => (hcalls' > hcalls \/ dht' # dht)]_vars

ProgressEvents == {i \in DOMAIN sent : sent[i].type = "MigrationProgress"}

\* C27: the records are processed one at a time in the order of the scan;
\* over the successive MigrationProgress events migrated never decreases and
\* total stays the same
C27_ProgressMonotonic ==
    /\ [](/\ processed = SubSeq(record_paths, 1, Len(processed))
          /\ \A i, j \in DOMAIN record_paths : i < j => record_paths[i] < record_paths[j]
          /\ \A i, j \in ProgressEvents :
                 i < j => /\ sent[i].migrated <= sent[j].migrated
                          /\ sent[i].total = sent[j].total)
    /\ [][\/ processed' = processed
          \/ /\ Len(processed') = Len(processed) + 1
             /\ midx' = midx + 1]_vars

\* three progress events, each with more records migrated than the one before
C27_Witness ==
    /\ Len(sent) = 3
    /\ ProgressEvents = {1, 2, 3}
    /\ sent[1].migrated < sent[2].migrated
    /\ sent[2].migrated < sent[3].migrated
    /\ Len(processed) = 3

(***************************************************************************)
(* Properties of the running node.                                         *)
(***************************************************************************)
EventsOf(types) == {i \in DOMAIN sent : sent[i].type \in types}

MigrationEvents == {"MigrationProgress", "MigrationComplete", "Error"}

IsMigrationEvent(e) == e.type \in MigrationEvents

\* C28: of the events of one run, Started comes before all others, every
\* migration event comes before any activity of the upgrade monitor, and
\* ShuttingDown is sent exactly once, after shutdown was requested, as the
\* last event of run
C28_EventOrder ==
    /\ [](/\ npc # "built" => (sent # << >> /\ sent[1].type = "Started")
          /\ EventsOf({"Started"}) \subseteq {1}
          /\ Cardinality(EventsOf({"ShuttingDown"})) = IF npc = "returned" THEN 1 ELSE 0
          /\ npc = "returned" => (shutdownVal /\ sent[Len(sent)].type = "ShuttingDown"))
    /\ [][(mpc' # "none" \/ polls' > 0) =>
              SelectSeq(sent', IsMigrationEvent) = SelectSeq(sent, IsMigrationEvent)]_vars

\* a run that migrated records, had its monitor poll and returned
C28_Witness ==
    /\ npc = "returned"
    /\ EventsOf({"MigrationProgress"}) # {}
    /\ EventsOf({"MigrationComplete"}) # {}
    /\ polls > 0
    /\ sent[Len(sent)].type = "ShuttingDown"

\* C29: run returns only after the monitor task it spawned has observed the
\* shutdown and stopped; after the return there is no further update check
\* and no further event
C29_ReturnsAfterMonitorStopped ==
    /\ [](npc = "returned" => mpc \in {"none", "stopped"})
    /\ [][npc = "returned" => (polls' = polls /\ sent' = sent)]_vars

\* C30: the monitor task's wait between polls is cancelled by the shutdown:
\* once the shutdown value is true no new poll starts, and the task spends no
\* more of check_interval asleep
C30_SleepCancellable ==
    /\ [][shutdownVal => polls' = polls]_vars
    /\ [][(shutdownVal /\ mpc = "sleeping") => msleep' = msleep]_vars

\* migrate has returned an error to run
MigrateFailed == hasMigrator /\ mgpc = "returned" /\ ~mresult.ok

\* C31: when migrate returns an error, run sends exactly one Error event and
\* no MigrationComplete and goes on as without the error: it spawns the
\* monitor task when there is a monitor, waits for the shutdown, sends
\* ShuttingDown and returns
C31_MigrationFailureNotFatal ==
    /\ []((MigrateFailed /\ npc # "migrating") =>
            /\ Cardinality(EventsOf({"Error"})) = 1
            /\ EventsOf({"MigrationComplete"}) = {}
            /\ (hasMonitor /\ npc \in {"loop", "stopping", "returned"}) => mpc # "none"
            /\ npc = "returned" =>
                   (shutdownVal /\ sent[Len(sent)].type = "ShuttingDown"))
    /\ [][(MigrateFailed /\ npc = "migrating" /\ npc' # npc) => npc' = "spawn"]_vars

\* a run whose migration failed, whose monitor polled, and which returned
C31_Witness ==
    /\ MigrateFailed
    /\ npc = "returned"
    /\ hasMonitor
    /\ polls > 0
    /\ EventsOf({"Error"}) # {}

\* C36: once shutdown has been called, before run starts or while it runs,
\* run eventually sends ShuttingDown and returns Ok(()): a request made
\* before the loop begins to wait is not lost
C36_ShutdownNotLost ==
    shutdownVal ~> (npc = "returned" /\ EventsOf({"ShuttingDown"}) # {})

\* a run that returned on a shutdown requested before it started
C36_Witness ==
    /\ npc = "returned"
    /\ shutdownVal
    /\ ~runUnseen
    /\ EventsOf({"ShuttingDown"}) # {}

\* the records among the first j of record_paths that count as migrated
MigratedAfter(j) ==
    Cardinality({i \in 1..j : dirEntries[record_paths[i]] \in {"data", "sealed"}})

\* the progress events due once the first k records are processed
ExpectedProgress(k) ==
    LET n == Len(record_paths)
        turns == SelectSeq([j \in 1..k |-> j - 1],
                           LAMBDA i : i % 100 = 0 \/ i = n - 1)
    IN  <<[type |-> "MigrationProgress", migrated |-> 0, total |-> n]>>
        \o [j \in DOMAIN turns |->
               [type |-> "MigrationProgress", migrated |-> MigratedAfter(turns[j] + 1),
                total |-> n]]

\* C37: over N >= 1 records migrate sends MigrationProgress{0, N} before it
\* processes a record, then one event after the record of index i exactly
\* when i % 100 = 0 or i = N - 1; the last event carries the final
\* stats.migrated
C37_ProgressSchedule ==
    /\ mgpc = "idle" => sent = << >>
    /\ (mgpc # "idle" /\ record_paths = << >>) => sent = << >>
    /\ (mgpc # "idle" /\ record_paths # << >>) => sent = ExpectedProgress(Len(processed))
    /\ (MigrateOk /\ record_paths # << >>) =>
           sent[Len(sent)].migrated = mresult.val.migrated

\* a finished migration over more records than the period: events at the
\* start and after the records of index 0, 100 and 101
C37_Witness ==
    /\ MigrateOk
    /\ Len(record_paths) = ProgressEvery + 2
    /\ Len(sent) = 4
    /\ sent[3].migrated = ProgressEvery + 1
    /\ sent[4].migrated = ProgressEvery + 2

(***************************************************************************)
(* Further properties of the hybrid client.                                *)
(***************************************************************************)
TypedKinds == {"scratchpad", "pointer", "graph"}

\* the step in which get_scratchpad, get_pointer or get_graph_entry is
\* called and returns, or goes on to migrate what the legacy read found
TypedReadStep ==
    /\ gets' = gets + 1
    /\ \/ hreturned'.op \in TypedKinds /\ hreturned'.trace # << >>
       \/ \E p \in HProcs : hpc[p] = "idle" /\ hpc'[p] = "migrate_typed"

\* C35: the legacy get_scratchpad, get_pointer and get_graph_entry return
\* Ok(None) for every input, with or without a legacy connection, so a
\* hybrid read of a typed record never adds to autonomi_hits or migrations
C35_LegacyTypedReadsFindNothing ==
    /\ [](\A kind \in TypedKinds, connected \in BOOLEAN :
            \A owner \in Keys(kind) :
                legacy_get_typed(kind, owner, connected) = HOk("None", NoChunk))
    /\ [][TypedReadStep =>
              /\ stats'.autonomi_hits = stats.autonomi_hits
              /\ stats'.migrations = stats.migrations]_vars

\* a hybrid read of a typed record that went to a connected legacy network
\* and came back with nothing
C35_Witness ==
    /\ legacyConnected
    /\ hreturned.op \in TypedKinds
    /\ hreturned.result = HOk("None", NoChunk)
    /\ "Unsupported" \in Range(hreturned.trace)
    /\ stats.misses > 0

\* C38: a typed hybrid read that returns an error has recorded no hit, no
\* miss and no migration: every counter is as it was when the read was called
C38_FailedReadCountsNothing ==
    (hreturned.op \in Kinds /\ ~hreturned.result.ok) =>
        Range(hreturned.trace) \cap CounterNames = {}

(***************************************************************************)
(* Properties of the address extraction.                                   *)
(***************************************************************************)
\* exactly 64 characters, each a digit or a lowercase letter a-f
IsLowerHex64(name) ==
    Len(name) = 64 /\ \A i \in DOMAIN name : name[i] \in Range(HexDigits)

\* C39: the address is taken from the parent directory's name only when that
\* name is exactly a 64-character lowercase hex string, else from the
\* grandparent's name followed by the parent's under the same rule, else it
\* is unknown; when it is unknown no key is derived, no decryption is tried
\* and the raw bytes are used
C39_AddressFromLowerHex64 ==
    LET known == \/ IsLowerHex64(xpath.parent)
                 \/ xpath.grandparent # NoName
                        /\ IsLowerHex64(xpath.grandparent \o xpath.parent)
    IN  xout # NoOut =>
            /\ extract_xorname_from_path(xpath).some <=> known
            /\ ~known => (~xout.attempted /\ xout.record \in {"", dirEntries[1]})

(***************************************************************************)
(* Properties of the signature checks and of perform_upgrade.              *)
(***************************************************************************)
\* the signature the release key `pk` makes over `body` under the release context
GoodSignature(pk, body) == sign_with_context(pk, body, SIGNING_CONTEXT)

\* C32: perform_upgrade replaces the current binary only by a downloaded
\* binary whose signature verified against the embedded key and then
\* publishes UpgradeComplete; when a step fails the original binary is in
\* place again and Error is published
C32_UpgradeSwapsOrRollsBack ==
    uret.op = "perform_upgrade" =>
        \/ /\ uret.result = Ok("Success")
           /\ ucurrent = "downloaded"
           /\ verify_binary_signature(ubin, usig).result.ok
           /\ EventsOf({"UpgradeComplete"}) # {}
        \/ /\ ucurrent = "current"
           /\ EventsOf({"Error"}) # {}

\* C33: with the embedded release key empty, verify_binary_signature and
\* verify_from_file never return Ok, whatever the binary and the signature;
\* verify_binary_signature fails with the Crypto error "Release signing key
\* not configured" and has not read the binary
C33_EmptyKeyNeverAccepts ==
    /\ RELEASE_SIGNING_KEY = << >>
    /\ uret.op \in {"verify_binary_signature", "verify_from_file"} => ~uret.result.ok
    /\ uret.op = "verify_binary_signature" =>
           /\ uret.result = Err("Crypto", "Release signing key not configured")
           /\ "binary" \notin ureads

C33_Witness ==
    /\ uret.op = "verify_binary_signature"
    /\ ubin \in Binaries
    /\ \E pk \in Signers : usig = GoodSignature(pk, ubin)
    /\ uret.result.val = "Release signing key not configured"

\* C34: verify_binary_signature_with_key returns Ok(()) only when the file
\* can be read, the signature has exactly 3309 bytes and parses, and it
\* verifies under the release context; a signature over another body, any
\* other signature bytes, another public key or another context gives an error
C34_OkOnlyForValidSignature ==
    uret.op = "verify_binary_signature_with_key" =>
        /\ uret.result.ok =>
               /\ ubin # 0
               /\ usig.len = 3309 /\ usig.parses
               /\ verify_with_context(upk, ubin, usig, "saorsa-node-release-v1")
               /\ uret.result = Ok("()")
        /\ usig.body # ubin => ~uret.result.ok
        /\ usig # GoodSignature(upk, ubin) => ~uret.result.ok
        /\ usig.key # upk => ~uret.result.ok
        /\ usig.ctx # "saorsa-node-release-v1" => ~uret.result.ok

C34_Witness ==
    /\ uret.op = "verify_binary_signature_with_key"
    /\ uret.result = Ok("()")
    /\ usig = GoodSignature(upk, ubin)

(***************************************************************************)
(* Properties of the rollout delay.                                        *)
(***************************************************************************)
\* twice the 12-hour delay, give or take 10 % of it
WithinTenPercent(d12, d24) ==
    /\ 10 * (d24 - 2 * d12) <= 2 * d12
    /\ 10 * (2 * d12 - d24) <= 2 * d12

\* C40 as stated: whenever the delay of a node under a 12-hour window is not
\* zero, its delay under a 24-hour window is within 10 % of twice that
\* delay; and no delay is longer than max_delay_hours * 3600 seconds
C40_Original ==
    /\ (rdelays[12] > 0 /\ rdelays[24] # NotCalculated) =>
           WithinTenPercent(rdelays[12], rdelays[24])
    /\ \A h \in RolloutHours : rdelays[h] <= h * 3600

\* C40: the delay of a node under a 24-hour window is twice its delay under
\* a 12-hour window or one second more, which is within 10 % of twice the
\* 12-hour delay once that delay is 5 seconds or more; and no delay is
\* longer than max_delay_hours * 3600 seconds
C40_DelayScalesLinearly ==
    /\ (rdelays[12] # NotCalculated /\ rdelays[24] # NotCalculated) =>
           rdelays[24] - 2 * rdelays[12] \in {0, 1}
    /\ (rdelays[12] >= 5 /\ rdelays[24] # NotCalculated) =>
           WithinTenPercent(rdelays[12], rdelays[24])
    /\ \A h \in RolloutHours : rdelays[h] <= h * 3600

C40_Witness ==
    /\ rdelays[12] > 0 /\ rdelays[12] < 5
    /\ rdelays[24] = 2 * rdelays[12] + 1
    /\ rdelays[0] = 0

====
